---- MODULE Spec2Model ----
(***************************************************************************)
(* USDC security scanner: scam registry, cached address profiles, the risk *)
(* aggregator of the full scan and the pre-transfer validation.            *)
(***************************************************************************)
EXTENDS Integers, Sequences, FiniteSets, TLC

VARIABLES
    dataSource, \* what the DataSource answers, per chain
    scamFile,   \* data/scam-addresses.json as read by _loadScamDatabase
    scamDb,     \* AddressChecker.scamDb
    cache,      \* AddressChecker.cache : key -> [value, time]
    now,        \* Date.now(), in milliseconds
    calls,      \* number of handler invocations so far
    hist,       \* history of DataSource rounds and reloads
    result,     \* what the last handler invocation returned
    rpc         \* RpcClient: lastRequestTime, callers in _rateLimit, requests sent

vars == <<dataSource, scamFile, scamDb, cache, now, calls, hist, result, rpc>>

\* ------------------------------------------------------------------------
\* Constants of the program
\* ------------------------------------------------------------------------

CACHE_TTL == 300000

LARGE_TRANSFER_USDC == 50000

SUPPORTED_CHAINS == <<"ethereum", "base", "arbitrum">>

SEVERITY_WEIGHTS ==
    [critical |-> 95, high |-> 75, medium |-> 45, low |-> 20, info |-> 5]

RISK_LEVELS ==
    [CLEAN    |-> [min |-> 0,  max |-> 9],
     LOW      |-> [min |-> 10, max |-> 39],
     MEDIUM   |-> [min |-> 40, max |-> 69],
     HIGH     |-> [min |-> 70, max |-> 89],
     CRITICAL |-> [min |-> 90, max |-> 100]]

LevelNames == {"CLEAN", "LOW", "MEDIUM", "HIGH", "CRITICAL"}

\* ------------------------------------------------------------------------
\* Generic helpers
\* ------------------------------------------------------------------------

Min(a, b) == IF a <= b THEN a ELSE b

Max(a, b) == IF a >= b THEN a ELSE b

Range(s) == {s[i] : i \in DOMAIN s}

\* the value of a const: The({e(x) : x \in {v}}) is e(v) with v computed once
The(S) == CHOOSE x \in S : TRUE

RECURSIVE SumSeq(_)
SumSeq(s) == IF s = <<>> THEN 0 ELSE Head(s) + SumSeq(Tail(s))

RECURSIVE FlatSeq(_)
FlatSeq(ss) == IF ss = <<>> THEN <<>> ELSE Head(ss) \o FlatSeq(Tail(ss))

Impacts(riskFactors) == [i \in DOMAIN riskFactors |-> riskFactors[i].impact]

\* ------------------------------------------------------------------------
\* Addresses: "0x" followed by AddressDigits hexadecimal digits (40 in the
\* program), one character per element, so that letter case is part of the
\* value.
\* ------------------------------------------------------------------------

AddressDigits == 4

Pad(c) == [i \in 1..(AddressDigits - 4) |-> c]

Addr(d1, d2, d3, d4) == <<"0", "x">> \o Pad("0") \o <<d1, d2, d3, d4>>

\* 0x0000000000000000000000000000000000000000
ZERO_ADDRESS == Addr("0", "0", "0", "0")

\* 0x000000000000000000000000000000000000dead and two other spellings of it
DEAD_LOWER == Addr("d", "e", "a", "d")

DEAD_MIXED == Addr("d", "E", "a", "D")

DEAD_UPPER == Addr("D", "E", "A", "D")

\* an address registered with severity critical, spelled in mixed case as the
\* tests spell 0x098B716B8Aaf21512996dC57EB0615e2383E2f96
RONIN_MIXED == Addr("9", "B", "a", "f")

RONIN_LOWER == Addr("9", "b", "a", "f")

\* an address registered with severity medium
MEDIUM_SCAM == Addr("a", "A", "0", "1")

\* an address registered with severity low
LOW_SCAM == Addr("b", "B", "0", "2")

\* 0x1111111111111111111111111111111111111111, not registered
CLEAN_ADDRESS == <<"0", "x">> \o Pad("1") \o <<"1", "1", "1", "1">>

\* counterparties that are not registered
PEER_A == Addr("c", "0", "0", "a")

PEER_B == Addr("c", "0", "0", "b")

LowerChar(c) ==
    CASE c = "A" -> "a" [] c = "B" -> "b" [] c = "C" -> "c"
      [] c = "D" -> "d" [] c = "E" -> "e" [] c = "F" -> "f"
      [] c = "X" -> "x" [] OTHER -> c

\* the string as it is spelled
AsSpelled(s) == s

\* String.prototype.toLowerCase
ToLowerCase(s) == [i \in DOMAIN s |-> LowerChar(s[i])]

HexDigits ==
    {"0", "1", "2", "3", "4", "5", "6", "7", "8", "9",
     "a", "b", "c", "d", "e", "f", "A", "B", "C", "D", "E", "F"}

\* /^0x[0-9a-fA-F]{40}$/
ValidAddress(a) ==
    /\ Len(a) = 2 + AddressDigits
    /\ a[1] = "0"
    /\ a[2] = "x"
    /\ \A i \in 3..Len(a) : a[i] \in HexDigits

\* arguments that are not strings, each named by one tag that is no character
NULL_VALUE == <<"null">>

UNDEFINED_VALUE == <<"undefined">>

NUMBER_VALUE == <<"number">>

NotStrings == {NULL_VALUE, UNDEFINED_VALUE, NUMBER_VALUE}

\* '', 'invalid', a string that is too short, one that is too long, one with
\* a digit that is not hexadecimal, one that starts with 0X
EMPTY_STRING == <<>>

INVALID_WORD == <<"i", "n", "v", "a", "l", "i", "d">>

SHORT_ADDRESS == <<"0", "x">> \o Pad("1") \o <<"1", "2", "3">>

LONG_ADDRESS == <<"0", "x">> \o Pad("1") \o <<"1", "2", "3", "4", "5">>

NON_HEX_ADDRESS == Addr("d", "e", "a", "g")

UPPER_PREFIX_ADDRESS == <<"0", "X">> \o Pad("0") \o <<"d", "e", "a", "d">>

InvalidArguments ==
    NotStrings \cup {EMPTY_STRING, INVALID_WORD, SHORT_ADDRESS, LONG_ADDRESS,
                     NON_HEX_ADDRESS, UPPER_PREFIX_ADDRESS}

\* a validation that checks the prefix and the length but not the digits
ValidateAddressByShape(a) ==
    CASE a = <<>> \/ a \in NotStrings -> "Address is required and must be a string"
      [] ~(Len(a) = 2 + AddressDigits /\ a[1] = "0" /\ a[2] = "x") ->
            "Invalid Ethereum address"
      [] OTHER -> "ok"

\* _validateAddress: the message of the Error it throws, "ok" if it returns
ValidateAddress(a) ==
    CASE a = <<>> \/ a \in NotStrings -> "Address is required and must be a string"
      [] ~ValidAddress(a) -> "Invalid Ethereum address"
      [] OTHER -> "ok"

\* ------------------------------------------------------------------------
\* Scam registry (AddressChecker._loadScamDatabase, checkScamDatabase)
\* ------------------------------------------------------------------------

\* the value of a lookup that finds nothing
Null == [isKnownScam |-> FALSE]

\* a weight that ignores the severity
SeverityWeightFlat(severity) == 50

\* SEVERITY_WEIGHTS[entry.severity] || 50
SeverityWeight(severity) ==
    IF severity \in DOMAIN SEVERITY_WEIGHTS THEN SEVERITY_WEIGHTS[severity] ELSE 50

\* Two editions of data/scam-addresses.json: entries in file order, keys
\* spelled as the file spells them.
FileA ==
    << [addr |-> ZERO_ADDRESS, category |-> "burn",     severity |-> "info"],
       [addr |-> DEAD_MIXED,   category |-> "burn",     severity |-> "high"],
       [addr |-> RONIN_MIXED,  category |-> "exploit",  severity |-> "critical"],
       [addr |-> MEDIUM_SCAM,  category |-> "phishing", severity |-> "medium"],
       [addr |-> LOW_SCAM,     category |-> "spam",     severity |-> "low"] >>

FileB ==
    << [addr |-> ZERO_ADDRESS, category |-> "burn",     severity |-> "info"],
       [addr |-> DEAD_UPPER,   category |-> "burn",     severity |-> "high"],
       [addr |-> RONIN_MIXED,  category |-> "exploit",  severity |-> "critical"],
       [addr |-> ToLowerCase(MEDIUM_SCAM), category |-> "phishing", severity |-> "high"] >>

\* a file that readFileSync or JSON.parse rejects
CorruptFile == << [addr |-> <<>>, category |-> "", severity |-> "unreadable"] >>

FileSamples == {FileA, FileB, CorruptFile}

Readable(file) == file # CorruptFile

\* normalized[addr.toLowerCase()] = info, in file order: the last entry of a
\* key wins
LoadScamDatabase(file) ==
    LET keys == {ToLowerCase(file[i].addr) : i \in DOMAIN file}
        last(k) == CHOOSE i \in DOMAIN file :
                      /\ ToLowerCase(file[i].addr) = k
                      /\ \A j \in DOMAIN file :
                            ToLowerCase(file[j].addr) = k => j <= i
    IN  [k \in keys |-> [category |-> file[last(k)].category,
                         severity |-> file[last(k)].severity]]

\* a lookup that compares the address as it is spelled
CheckScamDatabaseAsSpelled(db, address) ==
    IF address \notin DOMAIN db
    THEN Null
    ELSE [isKnownScam |-> TRUE,
          category    |-> db[address].category,
          severity    |-> db[address].severity,
          riskScore   |-> SeverityWeight(db[address].severity)]

CheckScamDatabase(db, address) ==
    LET normalized == ToLowerCase(address)
    IN  IF normalized \notin DOMAIN db
        THEN Null
        ELSE [isKnownScam |-> TRUE,
              category    |-> db[normalized].category,
              severity    |-> db[normalized].severity,
              riskScore   |-> SeverityWeight(db[normalized].severity)]

\* ------------------------------------------------------------------------
\* DataSource answers of one profile round.  Balances are too large for one
\* machine integer and are kept as a pair: usdcBalance = units * 10^6 + micro
\* base units, ethBalance = milli * 10^15 + rest wei.
\* failAt = k: the k-th call of the round (1 isContract, 2 transactionCount,
\* 3 usdcBalance, 4 nativeBalance) throws; 0: none does.
\* ------------------------------------------------------------------------

ZeroUsdc == [units |-> 0, micro |-> 0]

ZeroEth == [milli |-> 0, rest |-> 0]

\* Number(BigInt(raw)) / 1e6 >= limit
UsdcFormattedAtLeast(bal, limit) == bal.units >= limit

\* Number(BigInt(raw)) / 1e6 > limit
UsdcFormattedAbove(bal, limit) ==
    \/ bal.units > limit
    \/ bal.units = limit /\ bal.micro > 0

\* Number(BigInt(raw)) / 1e18 < 0.001
EthFormattedIsDust(bal) == bal.milli < 1

NoFlags == [flags |-> <<>>, riskFactors |-> <<>>]

FlagIf(cond, flag, factor, impact) ==
    IF cond
    THEN [flags |-> <<flag>>,
          riskFactors |-> << [factor |-> factor, impact |-> impact] >>]
    ELSE NoFlags

\* a round whose catch adds RPC_ERROR to the flags of the values fetched
\* before the failure
ProfileOfPartial(address, chain, ds) ==
    LET isContract == IF ds.failAt = 1 THEN FALSE ELSE ds.isContract
        txCount    == IF ds.failAt \in {1, 2} THEN 0 ELSE ds.txCount
        usdc       == IF ds.failAt \in {1, 2, 3} THEN ZeroUsdc ELSE ds.usdcBalance
        eth        == IF ds.failAt # 0 THEN ZeroEth ELSE ds.ethBalance
        never      == FlagIf(txCount = 0, "NEVER_TRANSACTED",
                             "No transaction history", 15)
        contract   == FlagIf(isContract, "IS_CONTRACT",
                             "Address is a smart contract", 5)
        failed     == FlagIf(ds.failAt # 0, "RPC_ERROR",
                             "Failed to query on-chain data", 10)
    IN  [address     |-> ToLowerCase(address),
         chain       |-> chain,
         isContract  |-> isContract,
         txCount     |-> txCount,
         usdcBalance |-> usdc,
         ethBalance  |-> eth,
         flags       |-> never.flags \o contract.flags \o failed.flags,
         riskFactors |-> never.riskFactors \o contract.riskFactors
                             \o failed.riskFactors]

\* the try block of analyzeAddressProfile and its catch
ProfileOf(address, chain, ds) ==
    LET isContract == IF ds.failAt = 1 THEN FALSE ELSE ds.isContract
        txCount    == IF ds.failAt \in {1, 2} THEN 0 ELSE ds.txCount
        usdc       == IF ds.failAt \in {1, 2, 3} THEN ZeroUsdc ELSE ds.usdcBalance
        eth        == IF ds.failAt # 0 THEN ZeroEth ELSE ds.ethBalance
        never      == FlagIf(txCount = 0, "NEVER_TRANSACTED",
                             "No transaction history", 15)
        lowTx      == FlagIf(txCount < 5 /\ UsdcFormattedAbove(usdc, LARGE_TRANSFER_USDC),
                             "LOW_TX_HIGH_BALANCE",
                             "Low transactions but high balance", 25)
        contract   == FlagIf(isContract, "IS_CONTRACT",
                             "Address is a smart contract", 5)
        dust       == FlagIf(EthFormattedIsDust(eth) /\ txCount > 0, "DUST_ETH",
                             "Near-zero ETH balance", 10)
        failed     == FlagIf(TRUE, "RPC_ERROR", "Failed to query on-chain data", 10)
        derived    == IF ds.failAt # 0
                      THEN failed
                      ELSE [flags |-> never.flags \o lowTx.flags
                                        \o contract.flags \o dust.flags,
                            riskFactors |-> never.riskFactors \o lowTx.riskFactors
                                        \o contract.riskFactors \o dust.riskFactors]
    IN  [address     |-> ToLowerCase(address),
         chain       |-> chain,
         isContract  |-> isContract,
         txCount     |-> txCount,
         usdcBalance |-> usdc,
         ethBalance  |-> eth,
         flags       |-> derived.flags,
         riskFactors |-> derived.riskFactors]

\* ------------------------------------------------------------------------
\* Profile cache
\* ------------------------------------------------------------------------

\* `profile:${chain}:${address.toLowerCase()}`
CacheKey(address, chain) == <<"profile", chain, ToLowerCase(address)>>

\* an entry that expires as soon as its age reaches the TTL
CacheFreshBelowTtl(c, key, t) ==
    /\ key \in DOMAIN c
    /\ t - c[key].time < CACHE_TTL

\* _getCache finds an entry it may return
CacheFresh(c, key, t) ==
    /\ key \in DOMAIN c
    /\ ~(t - c[key].time > CACHE_TTL)

\* the map after _getCache: an expired entry is deleted
CacheAfterGet(c, key, t) ==
    IF key \in DOMAIN c /\ ~CacheFresh(c, key, t)
    THEN [k \in DOMAIN c \ {key} |-> c[k]]
    ELSE c

\* _setCache
SetCache(c, key, value, t) ==
    [k \in DOMAIN c \cup {key} |->
        IF k = key THEN [value |-> value, time |-> t] ELSE c[k]]

\* a round that stores the profile only when no DataSource call failed
AnalyzeAddressProfileForgetsErrors(c, t, address, chain, ds) ==
    LET key == CacheKey(address, chain)
    IN  IF CacheFresh(c, key, t)
        THEN [profile |-> c[key].value, cache |-> c, fetched |-> FALSE]
        ELSE The({[profile |-> profile,
                   cache   |-> IF profile.flags = <<"RPC_ERROR">>
                               THEN CacheAfterGet(c, key, t)
                               ELSE SetCache(CacheAfterGet(c, key, t), key, profile, t),
                   fetched |-> TRUE]
                  : profile \in {ProfileOf(address, chain, ds)}})

\* analyzeAddressProfile as a whole: the profile it returns, the cache it
\* leaves and whether it went to the DataSource
AnalyzeAddressProfile(c, t, address, chain, ds) ==
    LET key == CacheKey(address, chain)
    IN  IF CacheFresh(c, key, t)
        THEN [profile |-> c[key].value, cache |-> c, fetched |-> FALSE]
        ELSE The({[profile |-> profile,
                   cache   |-> SetCache(CacheAfterGet(c, key, t), key, profile, t),
                   fetched |-> TRUE]
                  : profile \in {ProfileOf(address, chain, ds)}})

\* ------------------------------------------------------------------------
\* Pattern detectors (PatternDetector).  A transfer is
\* [txHash, blockNumber, from, to, amountUSDC]; amounts are whole USDC and
\* the percentage tolerances are compared by cross-multiplication.
\* ------------------------------------------------------------------------

WASH_TRADE_MIN_CYCLES == 3

FLASH_LOAN_MIN_AMOUNT == 10000

HIGH_VELOCITY_TXS_PER_HOUR == 20

\* 3600 / blockTimeEstimate.ethereum
BlocksPerHour == 300

Abs(x) == IF x < 0 THEN 0 - x ELSE x

\* Array.prototype.sort by blockNumber: stable
SortByBlock(s) ==
    LET rank(i) == 1 + Cardinality({j \in DOMAIN s :
                          \/ s[j].blockNumber < s[i].blockNumber
                          \/ s[j].blockNumber = s[i].blockNumber /\ j < i})
    IN  [k \in DOMAIN s |-> s[CHOOSE i \in DOMAIN s : rank(i) = k]]

AmountsOf(txs) == [i \in DOMAIN txs |-> txs[i].amountUSDC]

\* tx.from.toLowerCase() === addr ? tx.to.toLowerCase() : tx.from.toLowerCase()
CounterpartyOf(addr, tx) ==
    IF ToLowerCase(tx.from) = addr THEN ToLowerCase(tx.to) ELSE ToLowerCase(tx.from)

\* a detector that counts the (sent, received) pairs whatever their amounts
DetectWashTradingByCount(address, transfers) ==
    LET addr == ToLowerCase(address)
        cps == {CounterpartyOf(addr, transfers[i]) : i \in DOMAIN transfers}
        sentOf(cp) == {i \in DOMAIN transfers :
                          /\ CounterpartyOf(addr, transfers[i]) = cp
                          /\ ToLowerCase(transfers[i].from) = addr}
        recvOf(cp) == {i \in DOMAIN transfers :
                          /\ CounterpartyOf(addr, transfers[i]) = cp
                          /\ ToLowerCase(transfers[i].from) # addr}
        matches(cp) == Cardinality(sentOf(cp) \X recvOf(cp))
    IN  The({IF suspiciousPairs = {}
             THEN <<>>
             ELSE << [type       |-> "WASH_TRADING",
                      severity   |-> "high",
                      riskImpact |-> 35,
                      confidence |-> Min(95, 50 + Cardinality(suspiciousPairs) * 15),
                      evidence   |-> Cardinality(suspiciousPairs)] >>
             : suspiciousPairs \in
                  {{cp \in cps : matches(cp) >= WASH_TRADE_MIN_CYCLES}}})

DetectWashTrading(address, transfers) ==
    LET addr == ToLowerCase(address)
        cps == {CounterpartyOf(addr, transfers[i]) : i \in DOMAIN transfers}
        sentOf(cp) == {i \in DOMAIN transfers :
                          /\ CounterpartyOf(addr, transfers[i]) = cp
                          /\ ToLowerCase(transfers[i].from) = addr}
        recvOf(cp) == {i \in DOMAIN transfers :
                          /\ CounterpartyOf(addr, transfers[i]) = cp
                          /\ ToLowerCase(transfers[i].from) # addr}
        \* Math.abs(sent - received) <= sent * 0.01
        matches(cp) == Cardinality({p \in sentOf(cp) \X recvOf(cp) :
                          100 * Abs(transfers[p[1]].amountUSDC - transfers[p[2]].amountUSDC)
                              <= transfers[p[1]].amountUSDC})
    IN  The({IF suspiciousPairs = {}
             THEN <<>>
             ELSE << [type       |-> "WASH_TRADING",
                      severity   |-> "high",
                      riskImpact |-> 35,
                      confidence |-> Min(95, 50 + Cardinality(suspiciousPairs) * 15),
                      evidence   |-> Cardinality(suspiciousPairs)] >>
             : suspiciousPairs \in
                  {{cp \in cps : /\ sentOf(cp) # {}
                                 /\ recvOf(cp) # {}
                                 /\ matches(cp) >= WASH_TRADE_MIN_CYCLES}}})

\* a detector whose tolerance bounds the amount sent from above only:
\* send - recv <= recv * 0.05
DetectFlashLoanPatternsOneSided(address, transfers) ==
    LET addr == ToLowerCase(address)
        blocks == {transfers[i].blockNumber : i \in DOMAIN transfers}
        largeTxs(b) == {i \in DOMAIN transfers :
                          /\ transfers[i].blockNumber = b
                          /\ transfers[i].amountUSDC >= FLASH_LOAN_MIN_AMOUNT}
        received(b) == {i \in largeTxs(b) : ToLowerCase(transfers[i].to) = addr}
        sent(b)     == {i \in largeTxs(b) : ToLowerCase(transfers[i].from) = addr}
        pairsOf(b) ==
            IF Cardinality(largeTxs(b)) < 2 THEN {}
            ELSE {t \in {b} \X received(b) \X sent(b) :
                     100 * (transfers[t[3]].amountUSDC - transfers[t[2]].amountUSDC)
                        <= 5 * transfers[t[2]].amountUSDC}
    IN  The({IF suspiciousBlocks = {}
             THEN <<>>
             ELSE << [type       |-> "FLASH_LOAN_PATTERN",
                      severity   |-> "high",
                      riskImpact |-> 40,
                      confidence |-> Min(90, 40 + Cardinality(suspiciousBlocks) * 20),
                      evidence   |-> Cardinality(suspiciousBlocks)] >>
             : suspiciousBlocks \in {UNION {pairsOf(b) : b \in blocks}}})

DetectFlashLoanPatterns(address, transfers) ==
    LET addr == ToLowerCase(address)
        blocks == {transfers[i].blockNumber : i \in DOMAIN transfers}
        largeTxs(b) == {i \in DOMAIN transfers :
                          /\ transfers[i].blockNumber = b
                          /\ transfers[i].amountUSDC >= FLASH_LOAN_MIN_AMOUNT}
        received(b) == {i \in largeTxs(b) : ToLowerCase(transfers[i].to) = addr}
        sent(b)     == {i \in largeTxs(b) : ToLowerCase(transfers[i].from) = addr}
        \* one entry per matching (recv, send) pair:
        \* Math.abs(recv - send) <= recv * 0.05
        pairsOf(b) ==
            IF Cardinality(largeTxs(b)) < 2 THEN {}
            ELSE {t \in {b} \X received(b) \X sent(b) :
                     100 * Abs(transfers[t[2]].amountUSDC - transfers[t[3]].amountUSDC)
                        <= 5 * transfers[t[2]].amountUSDC}
    IN  The({IF suspiciousBlocks = {}
             THEN <<>>
             ELSE << [type       |-> "FLASH_LOAN_PATTERN",
                      severity   |-> "high",
                      riskImpact |-> 40,
                      confidence |-> Min(90, 40 + Cardinality(suspiciousBlocks) * 20),
                      evidence   |-> Cardinality(suspiciousBlocks)] >>
             : suspiciousBlocks \in {UNION {pairsOf(b) : b \in blocks}}})

\* while (windowStart < i && sorted[i].blockNumber
\*            - sorted[windowStart].blockNumber > blocksPerHour) windowStart++
RECURSIVE AdvanceWindow(_, _, _)
AdvanceWindow(sorted, i, windowStart) ==
    IF windowStart < i
          /\ sorted[i].blockNumber - sorted[windowStart].blockNumber > BlocksPerHour
    THEN AdvanceWindow(sorted, i, windowStart + 1)
    ELSE windowStart

\* the for loop from index i on: windowStart is carried from one index to the
\* next and maxInWindow is the largest i - windowStart + 1 seen so far
RECURSIVE WindowScan(_, _, _, _)
WindowScan(sorted, i, windowStart, maxInWindow) ==
    IF i > Len(sorted)
    THEN maxInWindow
    ELSE The({The({WindowScan(sorted, next, ws, m)
                   : m \in {Max(maxInWindow, i - ws + 1)}, next \in {i + 1}})
              : ws \in {AdvanceWindow(sorted, i, windowStart)}})

MaxInWindow(sorted) == WindowScan(sorted, 1, 1, 0)

\* a detector that scans the transfers in the order given
DetectHighVelocityUnsorted(address, transfers) ==
    IF Len(transfers) < HIGH_VELOCITY_TXS_PER_HOUR
    THEN <<>>
    ELSE The({IF maxInWindow < HIGH_VELOCITY_TXS_PER_HOUR
              THEN <<>>
              ELSE << [type       |-> "HIGH_VELOCITY",
                       severity   |-> "medium",
                       riskImpact |-> 20,
                       confidence |-> Min(170, 60 + 3 * maxInWindow),
                       evidence   |-> maxInWindow] >>
              : maxInWindow \in {MaxInWindow(transfers)}})

DetectHighVelocity(address, transfers) ==
    IF Len(transfers) < HIGH_VELOCITY_TXS_PER_HOUR
    THEN <<>>
    ELSE The({IF maxInWindow < HIGH_VELOCITY_TXS_PER_HOUR
              THEN <<>>
              ELSE << [type       |-> "HIGH_VELOCITY",
                       severity   |-> "medium",
                       riskImpact |-> 20,
                       \* min(85, 30 + (maxInWindow / 20) * 30), in halves
                       confidence |-> Min(170, 60 + 3 * maxInWindow),
                       evidence   |-> maxInWindow] >>
              : maxInWindow \in {The({MaxInWindow(sorted) :
                                        sorted \in {SortByBlock(transfers)}})}})

\* a detector that measures a flow by the volume received
DetectCircularFlowsByReceived(address, transfers) ==
    LET addr == ToLowerCase(address)
        sentTo == {ToLowerCase(transfers[i].to) :
                      i \in {j \in DOMAIN transfers : ToLowerCase(transfers[j].from) = addr}}
        receivedFrom == {ToLowerCase(transfers[i].from) :
                      i \in {j \in DOMAIN transfers : ToLowerCase(transfers[j].from) # addr}}
        sentTxs(cp) == SelectSeq(transfers, LAMBDA t :
                          ToLowerCase(t.from) = addr /\ ToLowerCase(t.to) = cp)
        recvTxs(cp) == SelectSeq(transfers, LAMBDA t :
                          ToLowerCase(t.to) = addr /\ ToLowerCase(t.from) = cp)
        totalSent(cp) == SumSeq(AmountsOf(sentTxs(cp)))
        totalRecv(cp) == SumSeq(AmountsOf(recvTxs(cp)))
        cycleCount(cp) == Min(Len(sentTxs(cp)), Len(recvTxs(cp)))
    IN  The({IF significantCircular = {}
             THEN <<>>
             ELSE << [type       |-> "CIRCULAR_FLOW",
                      severity   |-> IF \E cp \in significantCircular : totalSent(cp) > 10000
                                     THEN "high" ELSE "medium",
                      riskImpact |-> Min(30, 10 + Cardinality(significantCircular) * 5),
                      confidence |-> Min(80, 30 + Cardinality(significantCircular) * 10),
                      evidence   |-> Cardinality(significantCircular)] >>
             : significantCircular \in
                  {{cp \in sentTo \cap receivedFrom :
                       cycleCount(cp) >= 2 /\ totalRecv(cp) > 100}}})

DetectCircularFlows(address, transfers) ==
    LET addr == ToLowerCase(address)
        sentTo == {ToLowerCase(transfers[i].to) :
                      i \in {j \in DOMAIN transfers : ToLowerCase(transfers[j].from) = addr}}
        receivedFrom == {ToLowerCase(transfers[i].from) :
                      i \in {j \in DOMAIN transfers : ToLowerCase(transfers[j].from) # addr}}
        sentTxs(cp) == SelectSeq(transfers, LAMBDA t :
                          ToLowerCase(t.from) = addr /\ ToLowerCase(t.to) = cp)
        recvTxs(cp) == SelectSeq(transfers, LAMBDA t :
                          ToLowerCase(t.to) = addr /\ ToLowerCase(t.from) = cp)
        totalSent(cp) == SumSeq(AmountsOf(sentTxs(cp)))
        cycleCount(cp) == Min(Len(sentTxs(cp)), Len(recvTxs(cp)))
    IN  The({IF significantCircular = {}
             THEN <<>>
             ELSE << [type       |-> "CIRCULAR_FLOW",
                      severity   |-> IF \E cp \in significantCircular : totalSent(cp) > 10000
                                     THEN "high" ELSE "medium",
                      riskImpact |-> Min(30, 10 + Cardinality(significantCircular) * 5),
                      confidence |-> Min(80, 30 + Cardinality(significantCircular) * 10),
                      evidence   |-> Cardinality(significantCircular)] >>
             : significantCircular \in
                  {{cp \in sentTo \cap receivedFrom :
                       cycleCount(cp) >= 2 /\ totalSent(cp) > 100}}})

\* a detector that leaves out a transfer of exactly the threshold
DetectLargeTransfersAbove(address, transfers) ==
    The({IF large = <<>>
         THEN <<>>
         ELSE The({<< [type       |-> "LARGE_TRANSFERS",
                       severity   |-> IF totalLargeVolume > 1000000 THEN "high" ELSE "medium",
                       riskImpact |-> IF totalLargeVolume > 1000000 THEN 25 ELSE 10,
                       confidence |-> 100,
                       evidence   |-> Len(large)] >>
                   : totalLargeVolume \in {SumSeq(AmountsOf(large))}})
         : large \in {SelectSeq(transfers,
                         LAMBDA t : t.amountUSDC > LARGE_TRANSFER_USDC)}})

DetectLargeTransfers(address, transfers) ==
    The({IF large = <<>>
         THEN <<>>
         ELSE The({<< [type       |-> "LARGE_TRANSFERS",
                       severity   |-> IF totalLargeVolume > 1000000 THEN "high" ELSE "medium",
                       riskImpact |-> IF totalLargeVolume > 1000000 THEN 25 ELSE 10,
                       confidence |-> 100,
                       evidence   |-> Len(large)] >>
                   : totalLargeVolume \in {SumSeq(AmountsOf(large))}})
         : large \in {SelectSeq(transfers,
                         LAMBDA t : t.amountUSDC >= LARGE_TRANSFER_USDC)}})

\* analyzePatterns(...).patterns: the findings in the detectors' order
AnalyzePatterns(address, transfers) ==
    The({DetectWashTrading(address, txs)
           \o DetectFlashLoanPatterns(address, txs)
           \o DetectHighVelocity(address, txs)
           \o DetectCircularFlows(address, txs)
           \o DetectLargeTransfers(address, txs)
         : txs \in {transfers}})

RiskImpacts(patterns) == [i \in DOMAIN patterns |-> patterns[i].riskImpact]

\* ------------------------------------------------------------------------
\* CCTP analysis (CCTPAnalyzer).  A deposit is [txHash, blockNumber,
\* sourceChain].
\* ------------------------------------------------------------------------

\* sorted[j].blockNumber - sorted[i].blockNumber <= 50, j running from i + 1
\* until the first deposit outside the window
RECURSIVE BurstFrom(_, _, _)
BurstFrom(sorted, i, j) ==
    IF j <= Len(sorted) /\ sorted[j].blockNumber - sorted[i].blockNumber <= 50
    THEN 1 + BurstFrom(sorted, i, j + 1)
    ELSE 0

MaxBurstOfChain(chainDeposits) ==
    The({LET counts == {1 + BurstFrom(sorted, i, i + 1) : i \in DOMAIN sorted}
         IN  IF counts = {} THEN 0 ELSE CHOOSE m \in counts : \A n \in counts : n <= m
         : sorted \in {SortByBlock(chainDeposits)}})

\* a detector that counts the deposits of all source chains together
DetectRapidBridgingAcrossChains(deposits) ==
    IF Len(deposits) < 3
    THEN <<>>
    ELSE LET chainsUsed == {deposits[i].sourceChain : i \in DOMAIN deposits}
             byChain(c) == SelectSeq(deposits, LAMBDA d : d.sourceChain = c)
             bursts == {MaxBurstOfChain(deposits) : c \in chainsUsed}
         IN  The({IF maxBursts < 3
                  THEN <<>>
                  ELSE << [type       |-> "RAPID_BRIDGING",
                           severity   |-> IF maxBursts >= 5 THEN "high" ELSE "medium",
                           riskImpact |-> Min(35, 15 + maxBursts * 5),
                           confidence |-> Min(85, 40 + maxBursts * 10),
                           evidence   |-> maxBursts] >>
                  : maxBursts \in {CHOOSE m \in bursts : \A n \in bursts : n <= m}})

DetectRapidBridging(deposits) ==
    IF Len(deposits) < 3
    THEN <<>>
    ELSE LET chainsUsed == {deposits[i].sourceChain : i \in DOMAIN deposits}
             byChain(c) == SelectSeq(deposits, LAMBDA d : d.sourceChain = c)
             bursts == {MaxBurstOfChain(byChain(c)) : c \in chainsUsed}
         IN  The({IF maxBursts < 3
                  THEN <<>>
                  ELSE << [type       |-> "RAPID_BRIDGING",
                           severity   |-> IF maxBursts >= 5 THEN "high" ELSE "medium",
                           riskImpact |-> Min(35, 15 + maxBursts * 5),
                           confidence |-> Min(85, 40 + maxBursts * 10),
                           evidence   |-> maxBursts] >>
                  : maxBursts \in {CHOOSE m \in bursts : \A n \in bursts : n <= m}})

\* a detector that counts deposits instead of source chains
DetectChainHoppingByDeposits(deposits) ==
    LET chainsUsed == {deposits[i].sourceChain : i \in DOMAIN deposits}
    IN  IF Len(deposits) < 3
        THEN <<>>
        ELSE << [type       |-> "CHAIN_HOPPING",
                 severity   |-> "medium",
                 riskImpact |-> 20,
                 confidence |-> 60,
                 evidence   |-> Cardinality(chainsUsed)] >>

DetectChainHopping(deposits) ==
    LET chainsUsed == {deposits[i].sourceChain : i \in DOMAIN deposits}
    IN  IF Cardinality(chainsUsed) < 3
        THEN <<>>
        ELSE << [type       |-> "CHAIN_HOPPING",
                 severity   |-> "medium",
                 riskImpact |-> 20,
                 confidence |-> 60,
                 evidence   |-> Cardinality(chainsUsed)] >>

\* _detectRoundTrip: a placeholder that returns null
DetectRoundTrip(address, chains) == <<>>

FailedFetch == [failed |-> TRUE, items |-> <<>>]

\* rpc.getCCTPDeposits(chain, address) with the catch of the analyzer and
\* sourceChain set to the chain queried
DepositsOfChain(chain, answer) ==
    IF answer.failed
    THEN <<>>
    ELSE [i \in DOMAIN answer.items |->
              [txHash      |-> answer.items[i].txHash,
               blockNumber |-> answer.items[i].blockNumber,
               sourceChain |-> chain]]

\* an analysis that one failed chain empties
AnalyzeCrossChainActivityAllOrNothing(address, chains, answers) ==
    The({The({[address         |-> ToLowerCase(address),
               cctpActivity    |-> allDeposits,
               hasCCTPActivity |-> allDeposits # <<>>,
               patterns        |-> patterns,
               riskFactors     |-> [i \in DOMAIN patterns |->
                                       [factor |-> patterns[i].type,
                                        impact |-> patterns[i].riskImpact]]]
              : patterns \in {IF allDeposits = <<>>
                              THEN <<>>
                              ELSE DetectRapidBridging(allDeposits)
                                     \o DetectChainHopping(allDeposits)
                                     \o DetectRoundTrip(address, chains)}})
         : allDeposits \in {IF \E i \in DOMAIN chains : answers[chains[i]].failed
                              THEN <<>>
                              ELSE FlatSeq([i \in DOMAIN chains |->
                                      DepositsOfChain(chains[i], answers[chains[i]])])}})

\* analyzeCrossChainActivity: chains is the list scanned, answers[chain] what
\* the DataSource returns for it
AnalyzeCrossChainActivity(address, chains, answers) ==
    The({The({[address         |-> ToLowerCase(address),
               cctpActivity    |-> allDeposits,
               hasCCTPActivity |-> allDeposits # <<>>,
               patterns        |-> patterns,
               riskFactors     |-> [i \in DOMAIN patterns |->
                                       [factor |-> patterns[i].type,
                                        impact |-> patterns[i].riskImpact]]]
              : patterns \in {IF allDeposits = <<>>
                              THEN <<>>
                              ELSE DetectRapidBridging(allDeposits)
                                     \o DetectChainHopping(allDeposits)
                                     \o DetectRoundTrip(address, chains)}})
         : allDeposits \in {FlatSeq([i \in DOMAIN chains |->
                               DepositsOfChain(chains[i], answers[chains[i]])])}})

\* ------------------------------------------------------------------------
\* What the DataSource can answer.  dataSource[chain] names one of the
\* situations below; Answers builds the answers for one address.
\* ------------------------------------------------------------------------

Tx(hash, block, from, to, amountUSDC) ==
    [txHash |-> hash, blockNumber |-> block, from |-> from, to |-> to,
     amountUSDC |-> amountUSDC]

Deposit(hash, block) == [txHash |-> hash, blockNumber |-> block]

\* no flag
AnswerClean ==
    [isContract |-> FALSE, txCount |-> 100,
     usdcBalance |-> [units |-> 5000, micro |-> 0],
     ethBalance |-> [milli |-> 2000, rest |-> 0], failAt |-> 0]

\* NEVER_TRANSACTED, LOW_TX_HIGH_BALANCE and IS_CONTRACT
AnswerWhale ==
    [isContract |-> TRUE, txCount |-> 0,
     usdcBalance |-> [units |-> 100000, micro |-> 0],
     ethBalance |-> ZeroEth, failAt |-> 0]

\* LOW_TX_HIGH_BALANCE by one base unit, and DUST_ETH
AnswerDust ==
    [isContract |-> FALSE, txCount |-> 3,
     usdcBalance |-> [units |-> 50000, micro |-> 1],
     ethBalance |-> [milli |-> 0, rest |-> 5], failAt |-> 0]

\* three round trips of 1000 USDC with one counterparty
WashTransfers(a) ==
    << Tx("w1", 10, a, PEER_A, 1000), Tx("w2", 11, PEER_A, a, 1000),
       Tx("w3", 12, a, PEER_A, 1000), Tx("w4", 13, PEER_A, a, 1000),
       Tx("w5", 14, a, PEER_A, 1000), Tx("w6", 15, PEER_A, a, 1000) >>

\* transfers with registered counterparties, spelled in either case
ScamTransfers(a) ==
    << Tx("s1", 20, a, RONIN_MIXED, 500), Tx("s2", 21, RONIN_LOWER, a, 200),
       Tx("s3", 22, a, PEER_B, 50),       Tx("s4", 23, DEAD_UPPER, a, 10),
       Tx("s5", 24, a, ZERO_ADDRESS, 7) >>

\* 50 000 USDC received and 50 100 USDC sent in one block
FlashTransfers(a) ==
    << Tx("f1", 77, PEER_A, a, 50000), Tx("f2", 77, a, PEER_B, 50100) >>

\* five deposits within 50 blocks
RapidDeposits ==
    << Deposit("d1", 100), Deposit("d2", 110), Deposit("d3", 120),
       Deposit("d4", 130), Deposit("d5", 140) >>

SingleDeposit == << Deposit("d9", 500) >>

Situations == {"quiet", "whale", "scammy", "flash", "down", "flaky"}

Answers(situation, a) ==
    CASE situation = "quiet" ->
            [profile |-> AnswerClean, transfers |-> <<>>,
             reputationFetchFails |-> FALSE, scanFetchFails |-> FALSE,
             deposits |-> <<>>, depositFetchFails |-> FALSE]
      [] situation = "whale" ->
            [profile |-> AnswerWhale, transfers |-> WashTransfers(a),
             reputationFetchFails |-> FALSE, scanFetchFails |-> FALSE,
             deposits |-> RapidDeposits, depositFetchFails |-> FALSE]
      [] situation = "scammy" ->
            [profile |-> AnswerDust, transfers |-> ScamTransfers(a),
             reputationFetchFails |-> FALSE, scanFetchFails |-> FALSE,
             deposits |-> SingleDeposit, depositFetchFails |-> FALSE]
      [] situation = "flash" ->
            [profile |-> AnswerClean, transfers |-> FlashTransfers(a),
             reputationFetchFails |-> FALSE, scanFetchFails |-> FALSE,
             deposits |-> SingleDeposit, depositFetchFails |-> FALSE]
      [] situation = "down" ->
            [profile |-> [AnswerWhale EXCEPT !.failAt = 1],
             transfers |-> ScamTransfers(a),
             reputationFetchFails |-> TRUE, scanFetchFails |-> TRUE,
             deposits |-> RapidDeposits, depositFetchFails |-> TRUE]
      [] situation = "nologs" ->
            [profile |-> [AnswerDust EXCEPT !.failAt = 2],
             transfers |-> ScamTransfers(a),
             reputationFetchFails |-> FALSE, scanFetchFails |-> TRUE,
             deposits |-> SingleDeposit, depositFetchFails |-> FALSE]
      [] situation = "nodeposits" ->
            [profile |-> [AnswerClean EXCEPT !.failAt = 4],
             transfers |-> WashTransfers(a),
             reputationFetchFails |-> FALSE, scanFetchFails |-> FALSE,
             deposits |-> RapidDeposits, depositFetchFails |-> TRUE]
      [] OTHER ->
            [profile |-> [AnswerWhale EXCEPT !.failAt = 3],
             transfers |-> WashTransfers(a),
             reputationFetchFails |-> TRUE, scanFetchFails |-> FALSE,
             deposits |-> SingleDeposit, depositFetchFails |-> FALSE]

\* the addresses handlers are called with
Addresses ==
    {ZERO_ADDRESS, DEAD_MIXED, DEAD_UPPER, RONIN_MIXED, MEDIUM_SCAM, LOW_SCAM,
     CLEAN_ADDRESS}

\* ------------------------------------------------------------------------
\* AddressChecker.checkScamInteractions and getReputation.
\* ds[chain] holds what the DataSource answers for that chain during one
\* handler invocation: profile (one profile round), transfers (the transfer
\* list), reputationFetchFails / scanFetchFails (whether getUSDCTransfers
\* throws in checkScamInteractions / in scanAddress), deposits and
\* depositFetchFails.
\* ------------------------------------------------------------------------

\* rpc.getUSDCTransfers(chain, address).catch(() => [])
TransfersOrEmpty(failed, transfers) == IF failed THEN <<>> ELSE transfers

CheckScamInteractions(db, address, transfers) ==
    LET counterparty(tx) ==
            IF ToLowerCase(tx.from) = ToLowerCase(address) THEN tx.to ELSE tx.from
    IN  The({[k \in DOMAIN hits |->
                [counterparty |-> counterparty(hits[k]),
                 txHash       |-> hits[k].txHash,
                 amount       |-> hits[k].amountUSDC,
                 direction    |-> IF ToLowerCase(hits[k].from) = ToLowerCase(address)
                                  THEN "sent" ELSE "received",
                 scamInfo     |-> CheckScamDatabase(db, counterparty(hits[k]))]]
             : hits \in {SelectSeq(transfers, LAMBDA tx :
                            CheckScamDatabase(db, counterparty(tx)).isKnownScam)}})

\* `KNOWN_${scamMatch.category.toUpperCase()}`
KnownFlag(category) ==
    CASE category = "burn"       -> "KNOWN_BURN"
      [] category = "exploit"    -> "KNOWN_EXPLOIT"
      [] category = "phishing"   -> "KNOWN_PHISHING"
      [] category = "sanctioned" -> "KNOWN_SANCTIONED"
      [] category = "spam"       -> "KNOWN_SPAM"
      [] OTHER                   -> "KNOWN_OTHER"

\* reputation.flags is a Set: insertion order, no duplicates
RECURSIVE AddFlags(_, _)
AddFlags(flags, new) ==
    IF new = <<>> THEN flags
    ELSE AddFlags(IF Head(new) \in Range(flags) THEN flags ELSE Append(flags, Head(new)),
                  Tail(new))

\* USDCSecurityScanner._scoreToLevel, and step 4 of getReputation
ScoreToLevel(score) ==
    IF score >= 90 THEN "CRITICAL"
    ELSE IF score >= 70 THEN "HIGH"
    ELSE IF score >= 40 THEN "MEDIUM"
    ELSE IF score >= 10 THEN "LOW"
    ELSE "CLEAN"

\* no clamp
Unclamped(x) == x

\* Math.min(100, x)
Clamp100(x) == Min(100, x)

\* a bonus without its cap
InteractionScoreUncapped(n) == n * 15

\* Math.min(50, interactions.length * 15)
InteractionScore(n) == Min(50, n * 15)

\* one iteration of the loop over chains in getReputation
ReputationStep(db, t, address, chain, dsc, acc) ==
    The({LET profile == analysed.profile
             bonus == IF Len(interactions) > 0
                      THEN << [factor |-> "Interacted with known scam address(es)",
                               impact |-> InteractionScore(Len(interactions))] >>
                      ELSE <<>>
         IN  [cache        |-> analysed.cache,
              fetched      |-> IF analysed.fetched
                               THEN acc.fetched \cup {CacheKey(address, chain)}
                               ELSE acc.fetched,
              chains       |-> Append(acc.chains, profile),
              interactions |-> acc.interactions \o interactions,
              flags        |-> AddFlags(AddFlags(acc.flags, profile.flags),
                                        IF Len(interactions) > 0
                                        THEN <<"SCAM_INTERACTIONS">> ELSE <<>>),
              riskFactors  |-> acc.riskFactors \o profile.riskFactors \o bonus,
              perChain     |-> Append(acc.perChain,
                                   [chain         |-> chain,
                                    profileImpact |-> SumSeq(Impacts(profile.riskFactors)),
                                    interactions  |-> Len(interactions)])]
         : analysed \in {AnalyzeAddressProfile(acc.cache, t, address, chain, dsc.profile)},
           interactions \in {CheckScamInteractions(db, address,
                                TransfersOrEmpty(dsc.reputationFetchFails, dsc.transfers))}})

\* step 3 of getReputation
FinalReputationScore(scamMatch, riskFactors) ==
    IF scamMatch.isKnownScam
    THEN scamMatch.riskScore
    ELSE Clamp100(SumSeq(Impacts(riskFactors)))

\* step 1 of getReputation: the report before the loop over the chains
ReputationStart(c, scamMatch) ==
    [cache        |-> c,
     fetched      |-> {},
     chains       |-> <<>>,
     interactions |-> <<>>,
     flags        |-> IF scamMatch.isKnownScam
                      THEN <<KnownFlag(scamMatch.category)>>
                      ELSE <<>>,
     riskFactors  |-> IF scamMatch.isKnownScam
                      THEN << [factor |-> "Known scam",
                               impact |-> scamMatch.riskScore] >>
                      ELSE <<>>,
     perChain     |-> <<>>]

\* step 2 of getReputation: for (const chain of chains)
RECURSIVE ReputationLoop(_, _, _, _, _, _)
ReputationLoop(db, t, address, chains, ds, acc) ==
    IF chains = <<>>
    THEN acc
    ELSE The({ReputationLoop(db, t, address, Tail(chains), ds, next)
              : next \in {ReputationStep(db, t, address, Head(chains),
                                         ds[Head(chains)], acc)}})

\* steps 3 and 4 of getReputation and the report it returns
ReputationReport(address, scamMatch, done) ==
    The({[address      |-> ToLowerCase(address),
          overallScore |-> overallScore,
          level        |-> ScoreToLevel(overallScore),
          chains       |-> done.chains,
          scamMatch    |-> scamMatch,
          interactions |-> done.interactions,
          flags        |-> done.flags,
          riskFactors  |-> done.riskFactors,
          perChain     |-> done.perChain,
          fetched      |-> done.fetched,
          cache        |-> done.cache]
         : overallScore \in {FinalReputationScore(scamMatch, done.riskFactors)}})

\* AddressChecker.getReputation(address, chains)
GetReputation(db, c, t, address, chains, ds) ==
    The({The({ReputationReport(address, scamMatch, done)
              : done \in {The({ReputationLoop(db, t, address, chains, ds, start)
                               : start \in {ReputationStart(c, scamMatch)}})}})
         : scamMatch \in {CheckScamDatabase(db, address)}})

\* ------------------------------------------------------------------------
\* USDCSecurityScanner: scanAddress, getReputation, validateTransfer
\* ------------------------------------------------------------------------

\* _resolveChains(options.chains || 'all'): the option is a string ('all' or
\* one chain name, which is not checked) or an array of chain names
ResolveChains(option) ==
    IF option.kind = "string"
    THEN IF option.value = "all" THEN SUPPORTED_CHAINS ELSE <<option.value>>
    ELSE SelectSeq(option.value, LAMBDA ch : ch \in Range(SUPPORTED_CHAINS))

\* step 2 of scanAddress: the findings of every chain whose transfer list is
\* not empty, in chain order
ScanPatterns(address, chains, ds) ==
    The({FlatSeq(found)
         : found \in {[i \in DOMAIN chains |->
              The({IF Len(transfers) = 0 THEN <<>> ELSE AnalyzePatterns(address, transfers)
                   : transfers \in {TransfersOrEmpty(ds[chains[i]].scanFetchFails,
                                                     ds[chains[i]].transfers)}})]}})

\* result.overallScore = Math.min(100, result.overallScore + patternRisk)
AddPatternRisk(score, patterns) == Clamp100(score + SumSeq(RiskImpacts(patterns)))

\* result.overallScore = Math.min(100, result.overallScore + cctpRisk)
AddCctpRisk(score, riskFactors) ==
    IF Len(riskFactors) > 0
    THEN Clamp100(score + SumSeq(Impacts(riskFactors)))
    ELSE score

NoCctp == [hasCCTPActivity |-> FALSE, patterns |-> <<>>, riskFactors |-> <<>>,
           cctpActivity |-> <<>>, address |-> <<>>]

\* the result of scanAddress from what its three stages found
ScanResult(address, depth, chains, reputation, patterns, cctpAnalysis) ==
    LET score1 == IF depth # "quick"
                  THEN AddPatternRisk(reputation.overallScore, patterns)
                  ELSE reputation.overallScore
        score2 == IF depth = "deep"
                  THEN AddCctpRisk(score1, cctpAnalysis.riskFactors)
                  ELSE score1
    IN  The({[op           |-> "scanAddress",
              thrown       |-> FALSE,
              address      |-> ToLowerCase(address),
              scanDepth    |-> depth,
              chains       |-> chains,
              reputation   |-> [overallScore |-> reputation.overallScore,
                                level        |-> reputation.level,
                                flags        |-> reputation.flags,
                                riskFactors  |-> reputation.riskFactors,
                                interactions |-> Len(reputation.interactions),
                                profiles     |-> reputation.chains,
                                perChain     |-> reputation.perChain],
              scamMatch    |-> reputation.scamMatch,
              patterns     |-> patterns,
              cctpAnalysis |-> [hasCCTPActivity |-> cctpAnalysis.hasCCTPActivity,
                                patterns        |-> cctpAnalysis.patterns,
                                riskFactors     |-> cctpAnalysis.riskFactors],
              overallScore |-> overallScore,
              level        |-> ScoreToLevel(overallScore),
              fetched      |-> reputation.fetched,
              cache        |-> reputation.cache]
             : overallScore \in {score2}})

\* scanAddress after _validateAddress
ScanAddress(db, c, t, address, chainsOption, depth, ds) ==
    The({The({ScanResult(address, depth, chains, reputation, patterns, cctpAnalysis)
              : reputation \in {GetReputation(db, c, t, address, chains, ds)},
                patterns \in {IF depth # "quick"
                              THEN ScanPatterns(address, chains, ds) ELSE <<>>},
                cctpAnalysis \in
                   {IF depth = "deep"
                    THEN AnalyzeCrossChainActivity(address, chains,
                             [ch \in Range(chains) |->
                                 IF ds[ch].depositFetchFails
                                 THEN FailedFetch
                                 ELSE [failed |-> FALSE, items |-> ds[ch].deposits]])
                    ELSE NoCctp}})
         : chains \in {ResolveChains(chainsOption)}})

\* USDCSecurityScanner.getReputation after _validateAddress
ScannerGetReputation(db, c, t, address, chainsOption, ds) ==
    The({The({[op           |-> "getReputation",
               thrown       |-> FALSE,
               address      |-> reputation.address,
               chains       |-> chains,
               overallScore |-> reputation.overallScore,
               level        |-> reputation.level,
               scamMatch    |-> reputation.scamMatch,
               flags        |-> reputation.flags,
               riskFactors  |-> reputation.riskFactors,
               interactions |-> Len(reputation.interactions),
               profiles     |-> reputation.chains,
               perChain     |-> reputation.perChain,
               fetched      |-> reputation.fetched,
               cache        |-> reputation.cache]
              : reputation \in {GetReputation(db, c, t, address, chains, ds)}})
         : chains \in {ResolveChains(chainsOption)}})

\* validation.overallScore = Math.min(100, validation.overallScore + rf.impact)
\* for every risk factor of the profile, in order
RECURSIVE AddProfileImpacts(_, _)
AddProfileImpacts(score, impacts) ==
    IF impacts = <<>> THEN score
    ELSE AddProfileImpacts(Clamp100(score + Head(impacts)), Tail(impacts))

\* a burn check that compares the recipient as it is spelled
IsBurnAddressAsSpelled(recipient) ==
    \/ recipient = ZERO_ADDRESS
    \/ recipient = DEAD_LOWER

\* check 3 of validateTransfer
IsBurnAddress(recipient) ==
    \/ ToLowerCase(recipient) = ZERO_ADDRESS
    \/ ToLowerCase(recipient) = DEAD_LOWER

\* a recommendation chosen by the score band alone
RecommendationByBand(safe, scamMatch, overallScore) ==
    IF overallScore >= 90 THEN "DO_NOT_SEND"
    ELSE IF overallScore >= 70 THEN "HIGH_RISK"
    ELSE IF overallScore >= 40 THEN "PROCEED_WITH_CAUTION"
    ELSE IF overallScore >= 10 THEN "LOW_RISK"
    ELSE "APPEARS_SAFE"

\* the recommendation chosen at the end of validateTransfer
Recommendation(safe, scamMatch, overallScore) ==
    IF ~safe
    THEN IF scamMatch.isKnownScam THEN "DO_NOT_SEND" ELSE "HIGH_RISK"
    ELSE IF overallScore >= 40 THEN "PROCEED_WITH_CAUTION"
    ELSE IF overallScore >= 10 THEN "LOW_RISK"
    ELSE "APPEARS_SAFE"

\* a safety decision taken from the score alone
FinalSafeByScore(safeSoFar, overallScore) == overallScore < 70

\* validation.safe after the last check
FinalSafe(safeSoFar, overallScore) == IF overallScore >= 70 THEN FALSE ELSE safeSoFar

\* the validation that validateTransfer builds from the registry lookup, the
\* profile and the interactions of a large transfer.  analyzeAddressProfile
\* catches every DataSource failure itself, so the try block around check 2
\* and check 3 always runs to its end and its catch (an 'Address Profile'
\* check with result ERROR) is never entered.
Validation(recipient, amount, chain, dsc, scamMatch, analysed, interactions) ==
    LET score0 == IF scamMatch.isKnownScam THEN scamMatch.riskScore ELSE 0
        safe0 == ~scamMatch.isKnownScam
        flags0 == IF scamMatch.isKnownScam THEN <<KnownFlag(scamMatch.category)>> ELSE <<>>
        checks0 == << [check |-> "Scam Database",
                       result |-> IF scamMatch.isKnownScam THEN "FAIL" ELSE "PASS"] >>
        \* check 2
        profile == analysed.profile
        score1 == AddProfileImpacts(score0, Impacts(profile.riskFactors))
        flags1 == flags0 \o profile.flags
        checks1 == Append(checks0,
                       [check |-> "Address Profile",
                        result |-> IF Len(profile.flags) > 0 THEN "WARN" ELSE "PASS"])
        \* check 3
        burn == IsBurnAddress(recipient)
        score2 == IF burn THEN 100 ELSE score1
        safe2 == IF burn THEN FALSE ELSE safe0
        flags2 == IF burn THEN Append(flags1, "BURN_ADDRESS") ELSE flags1
        checks2 == IF burn
                   THEN Append(checks1, [check |-> "Burn Address", result |-> "FAIL"])
                   ELSE checks1
        \* check 4
        large == amount >= LARGE_TRANSFER_USDC
        hit == large /\ Len(interactions) > 0
        score3 == IF hit THEN Clamp100(score2 + 30) ELSE score2
        safe3 == IF hit THEN FALSE ELSE safe2
        flags3 == (flags2 \o (IF large THEN <<"LARGE_TRANSFER">> ELSE <<>>))
                    \o (IF hit THEN <<"SCAM_INTERACTIONS">> ELSE <<>>)
        checks3 == (checks2
                     \o (IF large
                         THEN << [check |-> "Large Transfer", result |-> "WARN"] >>
                         ELSE <<>>))
                     \o (IF hit
                         THEN << [check |-> "Scam Interactions", result |-> "FAIL"] >>
                         ELSE <<>>)
    IN  The({The({[op             |-> "validateTransfer",
                   thrown         |-> FALSE,
                   recipient      |-> ToLowerCase(recipient),
                   chain          |-> chain,
                   amount         |-> amount,
                   overallScore   |-> overallScore,
                   level          |-> ScoreToLevel(overallScore),
                   safe           |-> safe,
                   flags          |-> flags3,
                   scamMatch      |-> scamMatch,
                   recommendation |-> Recommendation(safe, scamMatch, overallScore),
                   checks         |-> checks3,
                   profile        |-> profile,
                   historyFetched |-> large,
                   profileCallFailed |-> analysed.fetched /\ dsc.profile.failAt # 0,
                   interactions   |-> Len(interactions),
                   fetched        |-> IF analysed.fetched
                                      THEN {CacheKey(recipient, chain)} ELSE {},
                   cache          |-> analysed.cache]
                  \* final safety
                  : safe \in {FinalSafe(safe3, overallScore)}})
             : overallScore \in {Clamp100(score3)}})

\* a validation that never asks for the recipient's history
ValidateTransferWithoutHistory(db, c, t, recipient, amount, chain, dsc) ==
    The({Validation(recipient, amount, chain, dsc, scamMatch, analysed, <<>>)
         : scamMatch \in {CheckScamDatabase(db, recipient)},
           analysed \in {AnalyzeAddressProfile(c, t, recipient, chain, dsc.profile)}})

\* validateTransfer after _validateAddress
ValidateTransfer(db, c, t, recipient, amount, chain, dsc) ==
    The({Validation(recipient, amount, chain, dsc, scamMatch, analysed, interactions)
         : scamMatch \in {CheckScamDatabase(db, recipient)},
           analysed \in {AnalyzeAddressProfile(c, t, recipient, chain, dsc.profile)},
           interactions \in
              {IF amount >= LARGE_TRANSFER_USDC
               THEN CheckScamInteractions(db, recipient,
                        TransfersOrEmpty(dsc.reputationFetchFails, dsc.transfers))
               ELSE <<>>}})

\* the answers of every chain for one address
AnswersFor(a) ==
    [ch \in Range(SUPPORTED_CHAINS) |-> Answers(dataSource[ch], a)]

Depths == {"quick", "standard", "deep"}

AllChains == [kind |-> "string", value |-> "all"]

OneChain(ch) == [kind |-> "string", value |-> ch]

\* what a handler returns, without the cache it leaves behind
Returned(r) == [f \in DOMAIN r \ {"cache"} |-> r[f]]

NoResult == [op |-> "none", thrown |-> FALSE]

\* rounds and ticks are kept by the sequential specifications, begun and
\* ended by SpecOverlap: the calls of analyzeAddressProfile in the order in
\* which they started and the rounds in the order in which they ended
NoHistory == [rounds |-> <<>>, ticks |-> 0, begun |-> <<>>, ended |-> <<>>]

\* ------------------------------------------------------------------------
\* Handler invocations
\* ------------------------------------------------------------------------

\* RpcClient after its constructor: no call was made; pending holds the
\* profile rounds whose DataSource calls are not all answered yet
NoRequests ==
    [lastRequestTime |-> [ch \in Range(SUPPORTED_CHAINS) |-> 0],
     waiting         |-> {},
     sent            |-> <<>>,
     started         |-> 0,
     pending         |-> {}]

InitWith(worlds) ==
    /\ dataSource \in worlds
    /\ scamFile = FileA
    /\ scamDb = LoadScamDatabase(FileA)
    /\ cache = <<>>
    /\ now = 0
    /\ calls = 0
    /\ hist = NoHistory
    /\ result = NoResult
    /\ rpc = NoRequests

\* a handler that never catches
CaughtNowhere(call) == FALSE

\* whether a failure of the DataSource call is caught inside the handlers:
\* the calls of a profile round by the catch of analyzeAddressProfile, the
\* transfer fetches by their .catch(() => []), the deposit fetch by the catch
\* of analyzeCrossChainActivity
Caught(call) ==
    call \in {"profileRound", "interactionTransfers", "scanTransfers", "deposits"}

\* a DataSource call of the invocation failed and nothing caught the failure
Escapes(address, chains, ds, fetched, made) ==
    \E i \in DOMAIN chains :
        LET dsc == ds[chains[i]]
        IN  \/ /\ CacheKey(address, chains[i]) \in fetched
               /\ dsc.profile.failAt # 0
               /\ ~Caught("profileRound")
            \/ /\ "interactionTransfers" \in made
               /\ dsc.reputationFetchFails
               /\ ~Caught("interactionTransfers")
            \/ /\ "scanTransfers" \in made
               /\ dsc.scanFetchFails
               /\ ~Caught("scanTransfers")
            \/ /\ "deposits" \in made
               /\ dsc.depositFetchFails
               /\ ~Caught("deposits")

\* the handler throws: nothing is returned
Thrown(op, address, error, fetched) ==
    [op |-> op, thrown |-> TRUE, address |-> address, error |-> error,
     fetched |-> fetched]

\* _validateAddress throws at the first line of the handler
Rejected(op, address) ==
    /\ result' = Thrown(op, address, ValidateAddress(address), {})
    /\ cache' = cache

\* what the handler leaves behind when it ran past _validateAddress
Completed(op, address, chains, ds, made, r) ==
    /\ cache' = r.cache
    /\ result' = IF Escapes(address, chains, ds, r.fetched, made)
                 THEN Thrown(op, address, "DataSource failure", r.fetched)
                 ELSE Returned(r)

ScanAddressCall(address, option, depth) ==
    /\ IF ValidateAddress(address) # "ok"
       THEN Rejected("scanAddress", address)
       ELSE \E ds \in {AnswersFor(address)} :
               \E r \in {ScanAddress(scamDb, cache, now, address, option, depth, ds)} :
                  Completed("scanAddress", address, ResolveChains(option), ds,
                            {"interactionTransfers"}
                               \cup {c \in {"scanTransfers"} : depth # "quick"}
                               \cup {c \in {"deposits"} : depth = "deep"},
                            r)
    /\ UNCHANGED <<rpc, dataSource, scamFile, scamDb, now, calls, hist>>

GetReputationCall(address, option) ==
    /\ IF ValidateAddress(address) # "ok"
       THEN Rejected("getReputation", address)
       ELSE \E ds \in {AnswersFor(address)} :
               \E r \in {ScannerGetReputation(scamDb, cache, now, address, option, ds)} :
                  Completed("getReputation", address, ResolveChains(option), ds,
                            {"interactionTransfers"}, r)
    /\ UNCHANGED <<rpc, dataSource, scamFile, scamDb, now, calls, hist>>

ValidateTransferCall(recipient, amount, chain) ==
    /\ IF ValidateAddress(recipient) # "ok"
       THEN Rejected("validateTransfer", recipient)
       ELSE \E ds \in {AnswersFor(recipient)} :
               \E r \in {ValidateTransfer(scamDb, cache, now, recipient, amount,
                                          chain, ds[chain])} :
                  Completed("validateTransfer", recipient, <<chain>>, ds,
                            {c \in {"interactionTransfers"} :
                                amount >= LARGE_TRANSFER_USDC},
                            r)
    /\ UNCHANGED <<rpc, dataSource, scamFile, scamDb, now, calls, hist>>

\* ------------------------------------------------------------------------
\* Spec: the three handlers on one chain, for registered addresses.
\* The DataSource situation of a behaviour is fixed by Init.
\* ------------------------------------------------------------------------

OnlyBase(situation) ==
    [ch \in Range(SUPPORTED_CHAINS) |-> IF ch = "base" THEN situation ELSE "quiet"]

RegisteredAddresses == {ZERO_ADDRESS, RONIN_MIXED, MEDIUM_SCAM, LOW_SCAM}

Init == InitWith({OnlyBase(st) : st \in Situations})

Next ==
    \/ \E a \in RegisteredAddresses, d \in Depths : ScanAddressCall(a, OneChain("base"), d)
    \/ \E a \in RegisteredAddresses : GetReputationCall(a, OneChain("base"))
    \/ \E a \in RegisteredAddresses, m \in {1000, 50000} :
          ValidateTransferCall(a, m, "base")

Spec == Init /\ [][Next]_vars

\* ------------------------------------------------------------------------
\* SpecScan: full scans and reputation reports over all supported chains
\* ------------------------------------------------------------------------

ScanAddresses == {ZERO_ADDRESS, RONIN_MIXED, MEDIUM_SCAM, CLEAN_ADDRESS}

\* base is in any situation; ethereum and arbitrum are quiet, whale or down
\* together
ScanWorlds ==
    {w \in [Range(SUPPORTED_CHAINS) -> Situations] :
        /\ w["arbitrum"] = w["ethereum"]
        /\ w["ethereum"] \in {"quiet", "whale", "down"}}

InitScan == InitWith(ScanWorlds)

NextScan ==
    \/ \E a \in ScanAddresses, d \in Depths : ScanAddressCall(a, AllChains, d)
    \/ \E a \in ScanAddresses : GetReputationCall(a, AllChains)

SpecScan == InitScan /\ [][NextScan]_vars

\* ------------------------------------------------------------------------
\* SpecValidate: pre-transfer validation on the default chain
\* ------------------------------------------------------------------------

Recipients ==
    {ZERO_ADDRESS, DEAD_MIXED, DEAD_UPPER, RONIN_MIXED, MEDIUM_SCAM, CLEAN_ADDRESS}

Amounts == {0, 49999, 50000}

\* the DataSource of ethereum is down, that of base is in any situation
ValidateWorlds ==
    {[OnlyBase(st) EXCEPT !["ethereum"] = "down"] : st \in Situations}

InitValidate == InitWith(ValidateWorlds)

NextValidate ==
    \/ \E a \in Recipients, m \in Amounts : ValidateTransferCall(a, m, "base")
    \/ \E m \in Amounts : ValidateTransferCall(DEAD_MIXED, m, "ethereum")

SpecValidate == InitValidate /\ [][NextValidate]_vars

\* ------------------------------------------------------------------------
\* SpecCache: sequential calls of AddressChecker.analyzeAddressProfile while
\* the clock advances, the DataSource of base changes and the registry is
\* reloaded
\* ------------------------------------------------------------------------

MaxCalls == 3

MaxTicks == 2

TickSteps == {1, CACHE_TTL}

ProfileCalls ==
    {<<DEAD_MIXED, "base">>, <<DEAD_UPPER, "base">>, <<CLEAN_ADDRESS, "base">>,
     <<DEAD_MIXED, "ethereum">>}

CacheSituations == {"quiet", "whale", "down"}

AnalyzeAddressProfileCall(address, chain) ==
    /\ calls < MaxCalls
    /\ \E r \in {AnalyzeAddressProfile(cache, now, address, chain,
                                       AnswersFor(address)[chain].profile)} :
          LET key == CacheKey(address, chain)
          IN  /\ cache' = r.cache
              /\ result' = [op      |-> "analyzeAddressProfile",
                            thrown  |-> FALSE,
                            address |-> address,
                            chain   |-> chain,
                            profile |-> r.profile,
                            fetched |-> IF r.fetched THEN {key} ELSE {}]
              /\ hist' = IF r.fetched
                         THEN [hist EXCEPT !.rounds =
                                  [k \in DOMAIN hist.rounds \cup {key} |->
                                      IF k = key THEN now ELSE hist.rounds[k]]]
                         ELSE hist
    /\ calls' = calls + 1
    /\ UNCHANGED <<rpc, dataSource, scamFile, scamDb, now>>

\* a reload that replaces the table and keeps the cache
ReloadCallKeepsCache ==
    /\ calls < MaxCalls
    /\ IF Readable(scamFile)
       THEN /\ scamDb' = LoadScamDatabase(scamFile)
            /\ result' = [op |-> "reload", thrown |-> FALSE]
            /\ UNCHANGED <<cache, hist>>
       ELSE /\ UNCHANGED <<scamDb, cache, hist>>
            /\ result' = [op |-> "reload", thrown |-> TRUE]
    /\ calls' = calls + 1
    /\ UNCHANGED <<rpc, dataSource, scamFile, now>>

\* AddressChecker.reload: a file that cannot be read or parsed makes
\* _loadScamDatabase throw before anything is assigned or cleared
ReloadCall ==
    /\ calls < MaxCalls
    /\ IF Readable(scamFile)
       THEN /\ scamDb' = LoadScamDatabase(scamFile)
            /\ cache' = <<>>
            /\ hist' = [hist EXCEPT !.rounds = <<>>]
            /\ result' = [op |-> "reload", thrown |-> FALSE]
       ELSE /\ UNCHANGED <<scamDb, cache, hist>>
            /\ result' = [op |-> "reload", thrown |-> TRUE]
    /\ calls' = calls + 1
    /\ UNCHANGED <<rpc, dataSource, scamFile, now>>

\* Date.now() advances between two calls
Tick(d) ==
    /\ hist.ticks < MaxTicks
    /\ now' = now + d
    /\ hist' = [hist EXCEPT !.ticks = @ + 1]
    /\ UNCHANGED <<rpc, dataSource, scamFile, scamDb, cache, calls, result>>

\* the chain's node starts to answer differently
DataSourceChange(chain, situation) ==
    /\ dataSource[chain] # situation
    /\ dataSource' = [dataSource EXCEPT ![chain] = situation]
    /\ UNCHANGED <<rpc, scamFile, scamDb, cache, now, calls, hist, result>>

InitCache == InitWith({OnlyBase("quiet")})

NextCache ==
    \/ \E p \in ProfileCalls : AnalyzeAddressProfileCall(p[1], p[2])
    \/ ReloadCall
    \/ \E d \in TickSteps : Tick(d)
    \/ \E st \in CacheSituations : DataSourceChange("base", st)

SpecCache == InitCache /\ [][NextCache]_vars

\* ------------------------------------------------------------------------
\* SpecProfile: profile rounds of AddressChecker.analyzeAddressProfile on
\* DataSource answers around the thresholds of the flag analysis, with a
\* failure at any of the four calls
\* ------------------------------------------------------------------------

\* wei below 10^15 are counted in units that fit a machine integer
ProfileAnswers ==
    [isContract  : BOOLEAN,
     txCount     : {0, 4, 5},
     usdcBalance : {[units |-> LARGE_TRANSFER_USDC, micro |-> 0],
                    [units |-> LARGE_TRANSFER_USDC, micro |-> 1]},
     ethBalance  : {[milli |-> 0, rest |-> 5], [milli |-> 1, rest |-> 0]},
     failAt      : 0..4]

\* analyzeAddressProfile when the DataSource answers ds
ProfileRoundCall(address, chain, ds) ==
    /\ calls < MaxCalls
    /\ \E r \in {AnalyzeAddressProfile(cache, now, address, chain, ds)} :
          LET key == CacheKey(address, chain)
          IN  /\ cache' = r.cache
              /\ result' = [op      |-> "analyzeAddressProfile",
                            thrown  |-> FALSE,
                            address |-> address,
                            chain   |-> chain,
                            profile |-> r.profile,
                            fetched |-> IF r.fetched THEN {key} ELSE {},
                            answers |-> IF r.fetched THEN {ds} ELSE {}]
              /\ hist' = IF r.fetched
                         THEN [hist EXCEPT !.rounds =
                                  [k \in DOMAIN hist.rounds \cup {key} |->
                                      IF k = key THEN now ELSE hist.rounds[k]]]
                         ELSE hist
    /\ calls' = calls + 1
    /\ UNCHANGED <<rpc, dataSource, scamFile, scamDb, now>>

InitProfile == InitWith({OnlyBase("quiet")})

NextProfile ==
    \/ \E ds \in ProfileAnswers : ProfileRoundCall(CLEAN_ADDRESS, "base", ds)
    \/ ReloadCall

SpecProfile == InitProfile /\ [][NextProfile]_vars

\* ------------------------------------------------------------------------
\* SpecRate: calls of RpcClient.call issued while earlier calls to the same
\* chain are still inside _rateLimit.  Every step is one turn of the event
\* loop: a call runs up to its await, a timer callback runs to the send.
\* ------------------------------------------------------------------------

rateLimitDelay == 250

MaxRpcCalls == 3

RateChains == {"base", "ethereum"}

RateSteps == {rateLimitDelay \div 2, rateLimitDelay}

\* the request leaves: lastRequestTime[chain] = Date.now(), then the POST
SendRequest(r, caller, chain, t) ==
    [r EXCEPT !.lastRequestTime[chain] = t,
              !.sent = Append(@, [caller |-> caller, chain |-> chain, time |-> t])]

\* call(chain, ...) up to the end of _rateLimit or to its setTimeout
RpcCall(chain) ==
    /\ rpc.started < MaxRpcCalls
    /\ LET caller  == rpc.started + 1
           elapsed == now - rpc.lastRequestTime[chain]
           entered == [rpc EXCEPT !.started = caller]
       IN  rpc' = IF elapsed < rateLimitDelay
                  THEN [entered EXCEPT !.waiting = @ \cup
                           {[caller |-> caller, chain |-> chain,
                             due    |-> now + (rateLimitDelay - elapsed)]}]
                  ELSE SendRequest(entered, caller, chain, now)
    /\ UNCHANGED <<dataSource, scamFile, scamDb, cache, now, calls, hist, result>>

\* the timer of a caller waiting in _rateLimit fires, at its due time or later
TimerFires(w) ==
    /\ w \in rpc.waiting
    /\ now >= w.due
    /\ rpc' = SendRequest([rpc EXCEPT !.waiting = @ \ {w}], w.caller, w.chain, now)
    /\ UNCHANGED <<dataSource, scamFile, scamDb, cache, now, calls, hist, result>>

\* the clock of a running process reads far more than rateLimitDelay
InitRate ==
    /\ dataSource = OnlyBase("quiet")
    /\ scamFile = FileA
    /\ scamDb = LoadScamDatabase(FileA)
    /\ cache = <<>>
    /\ now = rateLimitDelay
    /\ calls = 0
    /\ hist = NoHistory
    /\ result = NoResult
    /\ rpc = NoRequests

NextRate ==
    \/ \E ch \in RateChains : RpcCall(ch)
    \/ \E w \in rpc.waiting : TimerFires(w)
    \/ \E d \in RateSteps : Tick(d)

SpecRate == InitRate /\ [][NextRate]_vars

\* ------------------------------------------------------------------------
\* SpecFailures: the three handlers that query the DataSource, on all chains,
\* while the DataSource of base and of ethereum fails in every way sampled
\* ------------------------------------------------------------------------

FailureSituations == {"quiet", "down", "flaky", "nologs", "nodeposits"}

FailureWorlds ==
    {w \in [Range(SUPPORTED_CHAINS) -> FailureSituations] : w["arbitrum"] = "quiet"}

FailureAddresses == {CLEAN_ADDRESS}

InitFailures == InitWith(FailureWorlds)

NextFailures ==
    \/ \E a \in FailureAddresses, d \in Depths : ScanAddressCall(a, AllChains, d)
    \/ \E a \in FailureAddresses : GetReputationCall(a, AllChains)
    \/ \E a \in FailureAddresses, m \in {0, LARGE_TRANSFER_USDC},
          ch \in {"base", "ethereum"} : ValidateTransferCall(a, m, ch)

SpecFailures == InitFailures /\ [][NextFailures]_vars

\* ------------------------------------------------------------------------
\* PatternDetector.detectHoneypot.  The bytecode is kept as what the
\* heuristics read from it: whether it contains ff, how often it contains f4
\* and its size in bytes.  failAt = k: the k-th call of the analysis
\* (1 isContract, 2 getCode, 3 getTransactionCount) throws; 0: none does.
\* ------------------------------------------------------------------------

HONEYPOT_MIN_TRANSACTIONS == 10

\* ten transfers received from one counterparty, none sent
HoneypotTransfers(a) == [i \in 1..10 |-> Tx("h", 30 + i, PEER_A, a, 100)]

HoneypotAnswers(situation, a) ==
    CASE situation = "quiet" ->
            [isContract |-> FALSE,
             code |-> [hasFF |-> FALSE, f4Count |-> 0, size |-> 0],
             txCount |-> 100, transfers |-> <<>>, transfersFail |-> FALSE,
             failAt |-> 0]
      [] situation = "whale" ->
            [isContract |-> TRUE,
             code |-> [hasFF |-> TRUE, f4Count |-> 4, size |-> 100],
             txCount |-> 12, transfers |-> HoneypotTransfers(a),
             transfersFail |-> FALSE, failAt |-> 0]
      [] situation = "scammy" ->
            [isContract |-> TRUE,
             code |-> [hasFF |-> FALSE, f4Count |-> 3, size |-> 200],
             txCount |-> 3, transfers |-> WashTransfers(a),
             transfersFail |-> TRUE, failAt |-> 0]
      [] situation = "down" ->
            [isContract |-> TRUE,
             code |-> [hasFF |-> TRUE, f4Count |-> 4, size |-> 100],
             txCount |-> 12, transfers |-> HoneypotTransfers(a),
             transfersFail |-> TRUE, failAt |-> 1]
      [] OTHER ->
            [isContract |-> TRUE,
             code |-> [hasFF |-> TRUE, f4Count |-> 4, size |-> 100],
             txCount |-> 12, transfers |-> HoneypotTransfers(a),
             transfersFail |-> FALSE, failAt |-> 3]

DetectHoneypot(address, chain, hp) ==
    LET me        == ToLowerCase(address)
        codeFlags == (IF hp.code.hasFF THEN <<"HAS_SELFDESTRUCT_OPCODE">> ELSE <<>>)
                     \o (IF hp.code.f4Count > 3
                         THEN <<"EXCESSIVE_DELEGATECALL">> ELSE <<>>)
                     \o (IF hp.code.size < 200
                         THEN <<"SUSPICIOUSLY_SMALL_CONTRACT">> ELSE <<>>)
        codeConf  == (IF hp.code.f4Count > 3 THEN 15 ELSE 0)
                     + (IF hp.code.size < 200 THEN 20 ELSE 0)
        transfers == IF hp.txCount > 0
                     THEN TransfersOrEmpty(hp.transfersFail, hp.transfers)
                     ELSE <<>>
        sent      == Len(SelectSeq(transfers, LAMBDA t : ToLowerCase(t.from) = me))
        received  == Len(SelectSeq(transfers, LAMBDA t : ToLowerCase(t.to) = me))
        evaluated == hp.txCount > 0 /\ Len(transfers) >= HONEYPOT_MIN_TRANSACTIONS
        noOut     == evaluated /\ received > 5 /\ sent = 0
        \* sent.length / received.length < 0.5
        lowOut    == evaluated /\ ~noOut /\ received > 0 /\ 2 * sent < received
        txFlags   == IF noOut THEN <<"NO_OUTGOING_TRANSFERS">>
                     ELSE IF lowOut THEN <<"LOW_OUTGOING_RATIO">> ELSE <<>>
        txConf    == IF noOut THEN 40 ELSE IF lowOut THEN 25 ELSE 0
        report(indicators, confidence, finished) ==
            [op         |-> "checkHoneypot",
             thrown     |-> FALSE,
             address    |-> me,
             chain      |-> chain,
             isHoneypot |-> finished /\ confidence >= 50,
             confidence |-> confidence,
             indicators |-> indicators,
             fetched    |-> {}]
    IN  CASE hp.failAt = 1  -> report(<<"ANALYSIS_ERROR">>, 0, FALSE)
          [] ~hp.isContract -> report(<<"NOT_A_CONTRACT">>, 0, FALSE)
          [] hp.failAt = 2  -> report(<<"ANALYSIS_ERROR">>, 0, FALSE)
          [] hp.failAt = 3  -> report(codeFlags \o <<"ANALYSIS_ERROR">>, codeConf, FALSE)
          [] OTHER          -> report(codeFlags \o txFlags, codeConf + txConf, TRUE)

\* ------------------------------------------------------------------------
\* SpecEntry: the five public handlers that validate their address, called
\* with valid and with invalid arguments on the default chain
\* ------------------------------------------------------------------------

\* checkHoneypot: the profile cache is not used
CheckHoneypotCall(address, chain) ==
    /\ IF ValidateAddress(address) # "ok"
       THEN Rejected("checkHoneypot", address)
       ELSE /\ result' = DetectHoneypot(address, chain,
                             HoneypotAnswers(dataSource[chain], address))
            /\ cache' = cache
    /\ UNCHANGED <<rpc, dataSource, scamFile, scamDb, now, calls, hist>>

\* quickCheck: the registry lookup, no DataSource call
QuickCheckCall(address) ==
    /\ IF ValidateAddress(address) # "ok"
       THEN Rejected("quickCheck", address)
       ELSE /\ result' = [op      |-> "quickCheck",
                          thrown  |-> FALSE,
                          address |-> address,
                          match   |-> CheckScamDatabase(scamDb, address),
                          fetched |-> {}]
            /\ cache' = cache
    /\ UNCHANGED <<rpc, dataSource, scamFile, scamDb, now, calls, hist>>

EntrySituations == {"quiet", "whale", "scammy", "down", "flaky"}

EntryArguments == InvalidArguments \cup {CLEAN_ADDRESS, DEAD_MIXED}

\* the calls of the five handlers with one address argument
EntryCall(a) ==
    \/ \E d \in {"quick", "deep"} : ScanAddressCall(a, OneChain("base"), d)
    \/ GetReputationCall(a, OneChain("base"))
    \/ ValidateTransferCall(a, LARGE_TRANSFER_USDC, "base")
    \/ CheckHoneypotCall(a, "base")
    \/ QuickCheckCall(a)

InitEntry == InitWith({OnlyBase(st) : st \in EntrySituations})

NextEntry == \E a \in EntryArguments : EntryCall(a)

SpecEntry == InitEntry /\ [][NextEntry]_vars

\* ------------------------------------------------------------------------
\* SpecRegistry: registry lookups with every spelling of an address, while
\* data/scam-addresses.json is replaced on disk, the registry is reloaded
\* and profiles are cached
\* ------------------------------------------------------------------------

\* an address that is not registered, in two spellings
PEER_UPPER == Addr("C", "0", "0", "A")

LookupSpellings ==
    {DEAD_LOWER, DEAD_MIXED, DEAD_UPPER, RONIN_MIXED, RONIN_LOWER,
     MEDIUM_SCAM, ToLowerCase(MEDIUM_SCAM), LOW_SCAM, PEER_A, PEER_UPPER,
     CLEAN_ADDRESS}

\* the file on disk is replaced by another one
ScamFileChange(file) ==
    /\ file # scamFile
    /\ scamFile' = file
    /\ UNCHANGED <<rpc, dataSource, scamDb, cache, now, calls, hist, result>>

InitRegistry == InitWith({OnlyBase("quiet")})

NextRegistry ==
    \/ \E a \in LookupSpellings : QuickCheckCall(a)
    \/ ReloadCall
    \/ \E f \in FileSamples : ScamFileChange(f)
    \/ \E a \in {DEAD_MIXED, CLEAN_ADDRESS} : AnalyzeAddressProfileCall(a, "base")

SpecRegistry == InitRegistry /\ [][NextRegistry]_vars

\* ------------------------------------------------------------------------
\* SpecDetect: the wash-trading and the flash-loan detector on transfer
\* lists drawn by Init.  dataSource[chain] is here the transfer list that
\* getUSDCTransfers returns for the chain.
\* ------------------------------------------------------------------------

MaxPerSide == 2

MaxFlashTransfers == 2

\* amounts around the 1% tolerance of 1000 USDC
WashAmounts == {1000, 1010, 1011}

AmountLists(amounts, n) == UNION {[1..k -> amounts] : k \in 0..n}

\* transfers sent to `to` and received from `from`, one per amount
SentTo(a, to, amounts) == [i \in DOMAIN amounts |-> Tx("o", 40 + i, a, to, amounts[i])]

ReceivedFrom(a, from, amounts) ==
    [i \in DOMAIN amounts |-> Tx("i", 50 + i, from, a, amounts[i])]

\* the address trades with PEER_A, spelled in upper case where PEER_A is the
\* sender, and with PEER_B, and sends the amounts of the last list to itself
WashInputs(a) ==
    {SentTo(a, PEER_A, sa) \o ReceivedFrom(a, PEER_B, rb)
        \o ReceivedFrom(a, PEER_UPPER, ra) \o SentTo(a, PEER_B, sb)
        \o SentTo(a, a, self)
     : sa \in AmountLists(WashAmounts, MaxPerSide),
       ra \in AmountLists(WashAmounts, MaxPerSide),
       sb \in {<<>>, <<1000, 1000>>},
       rb \in {<<>>, <<1000, 1000>>},
       self \in {<<>>, <<1000, 1000, 1000>>}}

\* amounts around the minimum of 10 000 USDC and around its 5% tolerance
FlashAmounts == {9999, 10000, 10500, 10501, 20000}

FlashBlocks == {77, 78}

\* one transfer received from PEER_A, sent to PEER_B or sent to oneself
FlashTxs(a) ==
    {Tx("f", b, p[1], p[2], m) :
        b \in FlashBlocks, m \in FlashAmounts,
        p \in {<<PEER_A, a>>, <<a, PEER_B>>, <<a, a>>}}

FlashInputs(a) == UNION {[1..k -> FlashTxs(a)] : k \in 0..MaxFlashTransfers}

\* 10 000 USDC received from PEER_A and 10 000 USDC sent to PEER_B twice, the
\* second time in the same block or in the next
SplitRepayments(a) ==
    {<<Tx("f", 77, PEER_A, a, 10000), Tx("f", 77, a, PEER_B, 10000),
       Tx("f", b, a, PEER_B, 10000)>> : b \in FlashBlocks}

DetectInputs ==
    WashInputs(CLEAN_ADDRESS) \cup FlashInputs(CLEAN_ADDRESS)
        \cup SplitRepayments(CLEAN_ADDRESS)

DetectWashTradingCall(address) ==
    /\ result' = [op      |-> "detectWashTrading",
                  thrown  |-> FALSE,
                  address |-> address,
                  finding |-> DetectWashTrading(address, dataSource["base"])]
    /\ UNCHANGED <<rpc, dataSource, scamFile, scamDb, cache, now, calls, hist>>

DetectFlashLoanPatternsCall(address) ==
    /\ result' = [op      |-> "detectFlashLoanPatterns",
                  thrown  |-> FALSE,
                  address |-> address,
                  finding |-> DetectFlashLoanPatterns(address, dataSource["base"])]
    /\ UNCHANGED <<rpc, dataSource, scamFile, scamDb, cache, now, calls, hist>>

InitDetect ==
    /\ \E ts \in DetectInputs :
          dataSource = [ch \in Range(SUPPORTED_CHAINS) |->
                           IF ch = "base" THEN ts ELSE <<>>]
    /\ scamFile = FileA
    /\ scamDb = LoadScamDatabase(FileA)
    /\ cache = <<>>
    /\ now = 0
    /\ calls = 0
    /\ hist = NoHistory
    /\ result = NoResult
    /\ rpc = NoRequests

NextDetect ==
    \/ DetectWashTradingCall(CLEAN_ADDRESS)
    \/ DetectFlashLoanPatternsCall(CLEAN_ADDRESS)

SpecDetect == InitDetect /\ [][NextDetect]_vars

\* ------------------------------------------------------------------------
\* SpecPatterns: the velocity, circular-flow and large-transfer detectors
\* on transfer lists drawn by Init.  dataSource[chain] is here the transfer
\* list that getUSDCTransfers returns for the chain.
\* ------------------------------------------------------------------------

\* the longest list drawn has HIGH_VELOCITY_TXS_PER_HOUR + MaxExtraTransfers
\* transfers
MaxExtraTransfers == 1

VelocityOrders == {"ascending", "descending", "mixed"}

\* the place in block order of the i-th transfer of a list of n
PlaceOf(order, n, i) ==
    CASE order = "ascending"  -> i
      [] order = "descending" -> n + 1 - i
      [] OTHER                -> ((13 * i) % n) + 1

\* n transfers to PEER_A, one every `step` blocks
EvenlySpaced(a, n, step, order) ==
    [i \in 1..n |-> Tx("v", 1000 + step * (PlaceOf(order, n, i) - 1), a, PEER_A, 10)]

\* k transfers in one block and m transfers `gap` blocks later, the later
\* ones first in the list when lateFirst
Clustered(a, k, m, gap, lateFirst) ==
    IF lateFirst
    THEN [i \in 1..(k + m) |->
             Tx("v", IF i <= m THEN 1000 + gap ELSE 1000, a, PEER_A, 10)]
    ELSE [i \in 1..(k + m) |->
             Tx("v", IF i <= k THEN 1000 ELSE 1000 + gap, a, PEER_A, 10)]

\* lists around 20 transfers, around 300 blocks from the first to the last
VelocityInputs(a) ==
    {EvenlySpaced(a, n, step, order) :
        n \in (HIGH_VELOCITY_TXS_PER_HOUR - 1)
                 ..(HIGH_VELOCITY_TXS_PER_HOUR + MaxExtraTransfers),
        step \in {1, 15, 16},
        order \in VelocityOrders}
    \cup
    {Clustered(a, k, m, gap, lateFirst) :
        k \in (HIGH_VELOCITY_TXS_PER_HOUR - 3)..(HIGH_VELOCITY_TXS_PER_HOUR - 1),
        m \in 1..(2 + MaxExtraTransfers),
        gap \in {BlocksPerHour, BlocksPerHour + 1},
        lateFirst \in BOOLEAN}

\* amounts sent around the 100 USDC of a significant flow (50 + 50 is not
\* above it) and around the 10 000 USDC of severity high
CircularSent == {50, 60, 5000, 5001}

CircularReceived == {<<>>, <<1>>, <<1, 1>>, <<200>>, <<200, 200>>}

\* the k-th of the counterparties of a ring
RingPeer(k) == Addr("c", "1", "0", <<"1", "2", "3", "4", "5", "6">>[k])

\* k counterparties, each sent 60 USDC twice and each sending 1 USDC twice
Ring(a, k) ==
    FlatSeq([i \in 1..k |-> SentTo(a, RingPeer(i), <<60, 60>>)
                               \o ReceivedFrom(a, RingPeer(i), <<1, 1>>)])

\* the address trades with PEER_A, spelled in upper case where PEER_A is the
\* sender, and with PEER_B, and sends 60 USDC to itself; or it trades with a
\* ring of up to 5 counterparties
CircularInputs(a) ==
    {SentTo(a, PEER_A, sa) \o ReceivedFrom(a, PEER_UPPER, ra)
        \o SentTo(a, PEER_B, b) \o ReceivedFrom(a, PEER_B, b)
        \o SentTo(a, a, self)
     : sa \in AmountLists(CircularSent, MaxPerSide),
       ra \in CircularReceived,
       b \in {<<>>, <<60, 60>>},
       self \in {<<>>, <<60, 60>>}}
    \cup {Ring(a, k) : k \in 3..5}

MaxLargeTransfers == 2

\* amounts around LARGE_TRANSFER_USDC and halves of 1 000 000 USDC
LargeAmounts == {49999, 50000, 500000, 500001, 1000000}

LargeInputs(a) ==
    {SentTo(a, PEER_A, amounts) : amounts \in AmountLists(LargeAmounts, MaxLargeTransfers)}

PatternInputs ==
    VelocityInputs(CLEAN_ADDRESS) \cup CircularInputs(CLEAN_ADDRESS)
        \cup LargeInputs(CLEAN_ADDRESS)

DetectCircularFlowsCall(address) ==
    /\ result' = [op      |-> "detectCircularFlows",
                  thrown  |-> FALSE,
                  address |-> address,
                  finding |-> DetectCircularFlows(address, dataSource["base"])]
    /\ UNCHANGED <<rpc, dataSource, scamFile, scamDb, cache, now, calls, hist>>

DetectLargeTransfersCall(address) ==
    /\ result' = [op      |-> "detectLargeTransfers",
                  thrown  |-> FALSE,
                  address |-> address,
                  finding |-> DetectLargeTransfers(address, dataSource["base"])]
    /\ UNCHANGED <<rpc, dataSource, scamFile, scamDb, cache, now, calls, hist>>

DetectHighVelocityCall(address) ==
    /\ result' = [op      |-> "detectHighVelocity",
                  thrown  |-> FALSE,
                  address |-> address,
                  finding |-> DetectHighVelocity(address, dataSource["base"])]
    /\ UNCHANGED <<rpc, dataSource, scamFile, scamDb, cache, now, calls, hist>>

InitPatterns ==
    /\ \E ts \in PatternInputs :
          dataSource = [ch \in Range(SUPPORTED_CHAINS) |->
                           IF ch = "base" THEN ts ELSE <<>>]
    /\ scamFile = FileA
    /\ scamDb = LoadScamDatabase(FileA)
    /\ cache = <<>>
    /\ now = 0
    /\ calls = 0
    /\ hist = NoHistory
    /\ result = NoResult
    /\ rpc = NoRequests

NextPatterns ==
    \/ DetectHighVelocityCall(CLEAN_ADDRESS)
    \/ DetectCircularFlowsCall(CLEAN_ADDRESS)
    \/ DetectLargeTransfersCall(CLEAN_ADDRESS)

SpecPatterns == InitPatterns /\ [][NextPatterns]_vars

\* ------------------------------------------------------------------------
\* SpecBridge: the CCTP analysis on deposits drawn by Init.  dataSource[chain]
\* is here what getCCTPDeposits answers for the chain: [failed, items].
\* ------------------------------------------------------------------------

\* the longest burst drawn has 4 + MaxExtraDeposits deposits
MaxExtraDeposits == 1

\* n deposits, one every `step` blocks
SpacedDeposits(n, step, order) ==
    [i \in 1..n |-> Deposit("d", 1000 + step * (PlaceOf(order, n, i) - 1))]

\* ethereum: up to 5 deposits every 10, 25 or 26 blocks; base: deposits in
\* the same range of blocks, the last one 50 or 51 blocks after the first;
\* arbitrum: one deposit at most
BridgeItems ==
    [ethereum |-> {SpacedDeposits(n, step, order) :
                      n \in 0..(4 + MaxExtraDeposits),
                      step \in {10, 25, 26},
                      order \in {"ascending", "descending"}},
     base     |-> {<<>>,
                   <<Deposit("b", 1010)>>,
                   <<Deposit("b", 1060), Deposit("b", 1020), Deposit("b", 1010)>>,
                   <<Deposit("b", 1061), Deposit("b", 1020), Deposit("b", 1010)>>},
     arbitrum |-> {<<>>, <<Deposit("a", 1005)>>}]

BridgeAnswers(chain) ==
    {FailedFetch} \cup {[failed |-> FALSE, items |-> d] : d \in BridgeItems[chain]}

BridgeChains == {SUPPORTED_CHAINS, <<"base">>, <<"ethereum", "base">>}

\* the deposits that analyzeCrossChainActivity hands to its detectors when all
\* chains are requested
GatheredDeposits(answers) ==
    FlatSeq([i \in DOMAIN SUPPORTED_CHAINS |->
                DepositsOfChain(SUPPORTED_CHAINS[i], answers[SUPPORTED_CHAINS[i]])])

AnalyzeCrossChainActivityCall(address, chains) ==
    /\ \E r \in {AnalyzeCrossChainActivity(address, chains, dataSource)} :
          result' = [op       |-> "analyzeCrossChainActivity",
                     thrown   |-> FALSE,
                     address  |-> address,
                     chains   |-> chains,
                     analysis |-> r]
    /\ UNCHANGED <<rpc, dataSource, scamFile, scamDb, cache, now, calls, hist>>

DetectRapidBridgingCall ==
    /\ \E deposits \in {GatheredDeposits(dataSource)} :
          result' = [op       |-> "detectRapidBridging",
                     thrown   |-> FALSE,
                     deposits |-> deposits,
                     finding  |-> DetectRapidBridging(deposits)]
    /\ UNCHANGED <<rpc, dataSource, scamFile, scamDb, cache, now, calls, hist>>

DetectChainHoppingCall ==
    /\ \E deposits \in {GatheredDeposits(dataSource)} :
          result' = [op       |-> "detectChainHopping",
                     thrown   |-> FALSE,
                     deposits |-> deposits,
                     finding  |-> DetectChainHopping(deposits)]
    /\ UNCHANGED <<rpc, dataSource, scamFile, scamDb, cache, now, calls, hist>>

InitBridge ==
    /\ dataSource \in [Range(SUPPORTED_CHAINS) ->
                          UNION {BridgeAnswers(ch) : ch \in Range(SUPPORTED_CHAINS)}]
    /\ \A ch \in Range(SUPPORTED_CHAINS) : dataSource[ch] \in BridgeAnswers(ch)
    /\ scamFile = FileA
    /\ scamDb = LoadScamDatabase(FileA)
    /\ cache = <<>>
    /\ now = 0
    /\ calls = 0
    /\ hist = NoHistory
    /\ result = NoResult
    /\ rpc = NoRequests

NextBridge ==
    \/ \E chains \in BridgeChains : AnalyzeCrossChainActivityCall(CLEAN_ADDRESS, chains)
    \/ DetectRapidBridgingCall
    \/ DetectChainHoppingCall

SpecBridge == InitBridge /\ [][NextBridge]_vars

\* ------------------------------------------------------------------------
\* SpecOverlap: calls of AddressChecker.analyzeAddressProfile that overlap.
\* A call runs up to its first await in one step and ends in another, when
\* the last DataSource call of its round is answered; the round is answered
\* by the situation in which it ends.
\* ------------------------------------------------------------------------

MaxOverlapCalls == 2

OverlapSituations == {"quiet", "down"}

\* two spellings of one key
OverlapCalls == {<<DEAD_MIXED, "base">>, <<DEAD_UPPER, "base">>}

\* a call that joins the round in flight for its key
BeginProfileCallSingleFlight(address, chain) ==
    /\ calls < MaxOverlapCalls
    /\ LET key    == CacheKey(address, chain)
           caller == calls + 1
           went   == /\ ~CacheFresh(cache, key, now)
                     /\ \A p \in rpc.pending : CacheKey(p.address, p.chain) # key
       IN  /\ hist' = [hist EXCEPT !.begun =
                          Append(@, [caller |-> caller, key |-> key,
                                     time |-> now, went |-> went])]
           /\ IF CacheFresh(cache, key, now)
              THEN /\ result' = [op      |-> "analyzeAddressProfile",
                                 thrown  |-> FALSE,
                                 address |-> address,
                                 chain   |-> chain,
                                 profile |-> cache[key].value,
                                 fetched |-> {}]
                   /\ UNCHANGED <<cache, rpc>>
              ELSE /\ cache' = CacheAfterGet(cache, key, now)
                   /\ rpc' = IF went
                             THEN [rpc EXCEPT !.pending = @ \cup
                                      {[caller |-> caller, address |-> address,
                                        chain |-> chain]}]
                             ELSE rpc
                   /\ UNCHANGED result
    /\ calls' = calls + 1
    /\ UNCHANGED <<dataSource, scamFile, scamDb, now>>

\* analyzeAddressProfile up to its first await: _getCache, then either the
\* return of the cached profile or the first DataSource call of a round
BeginProfileCall(address, chain) ==
    /\ calls < MaxOverlapCalls
    /\ LET key    == CacheKey(address, chain)
           caller == calls + 1
           went   == ~CacheFresh(cache, key, now)
       IN  /\ hist' = [hist EXCEPT !.begun =
                          Append(@, [caller |-> caller, key |-> key,
                                     time |-> now, went |-> went])]
           /\ IF CacheFresh(cache, key, now)
              THEN /\ result' = [op      |-> "analyzeAddressProfile",
                                 thrown  |-> FALSE,
                                 address |-> address,
                                 chain   |-> chain,
                                 profile |-> cache[key].value,
                                 fetched |-> {}]
                   /\ UNCHANGED <<cache, rpc>>
              ELSE /\ cache' = CacheAfterGet(cache, key, now)
                   /\ rpc' = [rpc EXCEPT !.pending = @ \cup
                                 {[caller |-> caller, address |-> address,
                                   chain |-> chain]}]
                   /\ UNCHANGED result
    /\ calls' = calls + 1
    /\ UNCHANGED <<dataSource, scamFile, scamDb, now>>

\* the round of a call ends: flag analysis or catch, _setCache, return
CompleteProfileCall(p) ==
    /\ p \in rpc.pending
    /\ \E profile \in {ProfileOf(p.address, p.chain,
                                 Answers(dataSource[p.chain], p.address).profile)} :
          LET key == CacheKey(p.address, p.chain)
          IN  /\ cache' = SetCache(cache, key, profile, now)
              /\ result' = [op      |-> "analyzeAddressProfile",
                            thrown  |-> FALSE,
                            address |-> p.address,
                            chain   |-> p.chain,
                            profile |-> profile,
                            fetched |-> {key}]
              /\ hist' = [hist EXCEPT !.ended =
                             Append(@, [caller |-> p.caller, key |-> key,
                                        time |-> now, after |-> Len(hist.begun),
                                        profile |-> profile])]
    /\ rpc' = [rpc EXCEPT !.pending = @ \ {p}]
    /\ UNCHANGED <<dataSource, scamFile, scamDb, now, calls>>

InitOverlap == InitWith({OnlyBase("quiet")})

NextOverlap ==
    \/ \E c \in OverlapCalls : BeginProfileCall(c[1], c[2])
    \/ \E p \in rpc.pending : CompleteProfileCall(p)
    \/ \E d \in TickSteps : Tick(d)
    \/ \E st \in OverlapSituations : DataSourceChange("base", st)

SpecOverlap == InitOverlap /\ [][NextOverlap]_vars

\* ------------------------------------------------------------------------
\* Properties
\* ------------------------------------------------------------------------

\* C1: scanAddress and getReputation return an integer overallScore in
\* 0..100 and the level of the band of RISK_LEVELS that contains it; the
\* bands are contiguous and exhaustive, so exactly one band contains each
\* score of 0..100.
C1_ScoreInRangeLevelInBand ==
    /\ \A s \in 0..100 :
          Cardinality({lv \in LevelNames :
              RISK_LEVELS[lv].min <= s /\ s <= RISK_LEVELS[lv].max}) = 1
    /\ result.op \in {"scanAddress", "getReputation"} =>
          /\ result.overallScore \in 0..100
          /\ result.level \in LevelNames
          /\ RISK_LEVELS[result.level].min <= result.overallScore
          /\ result.overallScore <= RISK_LEVELS[result.level].max

\* a reputation report whose impacts sum to more than 100
C1_Witness ==
    /\ result.op = "getReputation"
    /\ SumSeq(Impacts(result.riskFactors)) > 100
    /\ result.overallScore = 100
    /\ result.level = "CRITICAL"

\* C2: for an address without a registry entry, the overallScore of
\* scanAddress is min(100, S), S being the sum of the profile impacts of
\* every scanned chain, the bonus min(50, 15 x interactions) of every chain,
\* the riskImpact of every pattern finding and the impact of every CCTP risk
\* factor; quick scans collect no pattern finding and only deep scans
\* collect CCTP risk factors.
C2_ScoreIsClampedSum ==
    (result.op = "scanAddress" /\ result.address \notin DOMAIN scamDb) =>
        LET rep == result.reputation
            profileImpacts ==
                SumSeq([i \in DOMAIN rep.profiles |->
                           SumSeq(Impacts(rep.profiles[i].riskFactors))])
            bonuses ==
                SumSeq([i \in DOMAIN rep.perChain |->
                           Min(50, 15 * rep.perChain[i].interactions)])
            patternImpacts == SumSeq(RiskImpacts(result.patterns))
            cctpImpacts == SumSeq(Impacts(result.cctpAnalysis.riskFactors))
        IN  /\ result.scanDepth = "quick" => Len(result.patterns) = 0
            /\ result.scanDepth # "deep" => Len(result.cctpAnalysis.riskFactors) = 0
            /\ result.overallScore =
                  Min(100, profileImpacts + bonuses + patternImpacts + cctpImpacts)

\* a deep scan whose reputation score is below 100 and whose pattern and
\* CCTP impacts lift the total over 100
C2_Witness ==
    /\ result.op = "scanAddress"
    /\ result.address \notin DOMAIN scamDb
    /\ result.scanDepth = "deep"
    /\ result.reputation.overallScore < 100
    /\ Len(result.patterns) > 0
    /\ Len(result.cctpAnalysis.riskFactors) > 0
    /\ result.overallScore = 100

\* C3: scanAddress of an address with a registry entry returns exactly the
\* severity weight of the entry as overallScore, at every depth.
C3_ScamScoreIsExactlyTheWeight ==
    (result.op = "scanAddress" /\ result.address \in DOMAIN scamDb) =>
        result.overallScore = SeverityWeight(scamDb[result.address].severity)

\* C4: for every address with a registry entry, the overallScore of
\* getReputation, scanAddress and validateTransfer is at least the severity
\* weight of the entry.
C4_ScoreAtLeastTheWeight ==
    result.op \in {"scanAddress", "getReputation", "validateTransfer"} =>
        LET subject == IF result.op = "validateTransfer"
                       THEN result.recipient ELSE result.address
        IN  subject \in DOMAIN scamDb =>
               result.overallScore >= SEVERITY_WEIGHTS[scamDb[subject].severity]

\* a validation of a registered address of low severity while the DataSource
\* fails
C4_Witness ==
    /\ result.op = "validateTransfer"
    /\ result.recipient = ToLowerCase(LOW_SCAM)
    /\ result.profileCallFailed
    /\ result.overallScore = SEVERITY_WEIGHTS["low"] + 10

C6_BurnAddressBlocked ==
    (result.op = "validateTransfer"
        /\ result.recipient \in {ZERO_ADDRESS, DEAD_LOWER}) =>
        /\ ~result.safe
        /\ "BURN_ADDRESS" \in Range(result.flags)
        /\ result.overallScore = 100

\* a transfer to 0x...dEaD on a chain whose DataSource is down
C6_Witness ==
    /\ result.op = "validateTransfer"
    /\ result.recipient = DEAD_LOWER
    /\ result.chain = "ethereum"
    /\ result.profileCallFailed
    /\ "BURN_ADDRESS" \in Range(result.flags)

\* C7: validateTransfer returns safe = true exactly when the final
\* overallScore is below 70, the recipient has no registry entry, is not a
\* burn address and the large-transfer check found no scam interaction.
C7_SafeExactlyWhenNothingFired ==
    result.op = "validateTransfer" =>
        (result.safe <=>
            /\ result.overallScore < 70
            /\ result.recipient \notin DOMAIN scamDb
            /\ result.recipient \notin {ZERO_ADDRESS, DEAD_LOWER}
            /\ ~(result.amount >= LARGE_TRANSFER_USDC /\ result.interactions > 0))

\* a registered recipient whose final score stays below 70
C7_Witness ==
    /\ result.op = "validateTransfer"
    /\ result.recipient \in DOMAIN scamDb
    /\ result.overallScore < 70
    /\ ~result.safe

\* C8 as stated: the recommendation of validateTransfer is chosen by the
\* final overallScore alone, with boundaries at 10, 40, 70 and 90.
C8_RecommendationByScoreAlone ==
    result.op = "validateTransfer" =>
        result.recommendation =
            (IF result.overallScore >= 90 THEN "DO_NOT_SEND"
             ELSE IF result.overallScore >= 70 THEN "HIGH_RISK"
             ELSE IF result.overallScore >= 40 THEN "PROCEED_WITH_CAUTION"
             ELSE IF result.overallScore >= 10 THEN "LOW_RISK"
             ELSE "APPEARS_SAFE")

\* C8: the recommendation of validateTransfer is chosen by safe, by the
\* presence of a scamMatch and by the final overallScore: DO NOT SEND for an
\* unsafe transfer with a scamMatch, HIGH RISK for an unsafe transfer
\* without one, and for a safe transfer PROCEED WITH CAUTION from 40, LOW
\* RISK from 10 and "appears safe" below 10.
C8_RecommendationBySafeMatchScore ==
    result.op = "validateTransfer" =>
        result.recommendation =
            (IF ~result.safe /\ result.recipient \in DOMAIN scamDb THEN "DO_NOT_SEND"
             ELSE IF ~result.safe THEN "HIGH_RISK"
             ELSE IF result.overallScore >= 40 THEN "PROCEED_WITH_CAUTION"
             ELSE IF result.overallScore >= 10 THEN "LOW_RISK"
             ELSE "APPEARS_SAFE")

\* an unregistered recipient with a score in the MEDIUM band that is unsafe
\* because of a scam interaction
C8_Witness ==
    /\ result.op = "validateTransfer"
    /\ result.recipient \notin DOMAIN scamDb
    /\ result.overallScore \in 40..69
    /\ result.interactions > 0
    /\ result.recommendation = "HIGH_RISK"

\* C9: when a DataSource call of the profile step of validateTransfer fails,
\* checks holds an 'Address Profile' entry with result ERROR, and the burn
\* check, the large-transfer check and the final safety decision still run.
C9_ProfileFailureIsAnErrorCheck ==
    (result.op = "validateTransfer" /\ result.profileCallFailed) =>
        /\ \E i \in DOMAIN result.checks :
              /\ result.checks[i].check = "Address Profile"
              /\ result.checks[i].result = "ERROR"
        /\ result.recipient \in {ZERO_ADDRESS, DEAD_LOWER} =>
              \E i \in DOMAIN result.checks : result.checks[i].check = "Burn Address"
        /\ result.amount >= LARGE_TRANSFER_USDC =>
              \E i \in DOMAIN result.checks : result.checks[i].check = "Large Transfer"
        /\ result.overallScore >= 70 => ~result.safe

\* C10: a call of analyzeAddressProfile goes to the DataSource exactly when
\* the cache holds no entry of the key (chain, lower-cased address) that is
\* at most CACHE_TTL old.  A call that does not go there returns the cached
\* profile and leaves the cache as it is.  A call that does comes at least
\* CACHE_TTL + 1 after the previous round of its key (since the last
\* reload), builds the profile from what the DataSource answers now and
\* stores it under the key with the current time.  No call touches the
\* entry of another key.
C10_OneRoundPerKeyAndTtl ==
    [][(calls' = calls + 1 /\ result'.op = "analyzeAddressProfile") =>
        LET address == result'.address
            chain == result'.chain
            key == <<"profile", chain, ToLowerCase(address)>>
            young == key \in DOMAIN cache /\ now - cache[key].time <= CACHE_TTL
            went == result'.fetched # {}
        IN  /\ went <=> ~young
            /\ young =>
                  /\ result'.profile = cache[key].value
                  /\ cache' = cache
            /\ ~young =>
                  /\ key \in DOMAIN hist.rounds => now - hist.rounds[key] > CACHE_TTL
                  /\ result'.profile =
                        ProfileOf(address, chain,
                                  Answers(dataSource[chain], address).profile)
                  /\ key \in DOMAIN cache'
                  /\ cache'[key] = [value |-> result'.profile, time |-> now]
            /\ DOMAIN cache' \subseteq DOMAIN cache \cup {key}
            /\ \A k \in DOMAIN cache \ {key} :
                  k \in DOMAIN cache' /\ cache'[k] = cache[k]
      ]_vars

\* a call in upper case that is answered from the entry stored CACHE_TTL
\* earlier by a call in mixed case, while the entry of another key is there
C10_Witness ==
    /\ result.op = "analyzeAddressProfile"
    /\ result.address = DEAD_UPPER
    /\ result.fetched = {}
    /\ CacheKey(DEAD_MIXED, "base") \in DOMAIN cache
    /\ now - cache[CacheKey(DEAD_MIXED, "base")].time = CACHE_TTL
    /\ CacheKey(DEAD_MIXED, "ethereum") \in DOMAIN cache

\* C11: a profile round in which one of the four DataSource calls failed
\* returns a profile whose flags are exactly [RPC_ERROR] and whose
\* riskFactors are exactly one entry of impact 10, whatever the values
\* fetched before the failure.
C11_FailedRoundIsOnlyRpcError ==
    (result.op = "analyzeAddressProfile" /\ result.fetched # {}) =>
        \A ds \in result.answers :
            ds.failAt # 0 =>
                /\ result.profile.flags = <<"RPC_ERROR">>
                /\ Len(result.profile.riskFactors) = 1
                /\ result.profile.riskFactors[1].impact = 10
                /\ Range(result.profile.flags) \cap
                       {"NEVER_TRANSACTED", "LOW_TX_HIGH_BALANCE",
                        "IS_CONTRACT", "DUST_ETH"} = {}

\* the balance call fails after a contract with no transaction was seen
C11_Witness ==
    /\ result.op = "analyzeAddressProfile"
    /\ \E ds \in result.answers :
          /\ ds.failAt = 3
          /\ ds.isContract
          /\ ds.txCount = 0
    /\ result.profile.isContract
    /\ result.profile.flags = <<"RPC_ERROR">>

\* C12: a profile round in which no DataSource call failed returns exactly
\* the flags NEVER_TRANSACTED iff txCount = 0 (impact 15),
\* LOW_TX_HIGH_BALANCE iff txCount < 5 and the USDC balance is above 50 000
\* (impact 25), IS_CONTRACT iff the address is a contract (impact 5) and
\* DUST_ETH iff the native balance is below 0.001 and txCount > 0 (impact
\* 10); each flag has one risk factor, NEVER_TRANSACTED and DUST_ETH never
\* hold together and the impacts sum to at most 45.
C12_FlagsExactlyByThresholds ==
    (result.op = "analyzeAddressProfile" /\ result.fetched # {}) =>
        \A ds \in result.answers :
            ds.failAt = 0 =>
                LET p == result.profile
                    expected ==
                        {f \in {"NEVER_TRANSACTED"} : ds.txCount = 0}
                        \cup {f \in {"LOW_TX_HIGH_BALANCE"} :
                                /\ ds.txCount < 5
                                /\ \/ ds.usdcBalance.units > 50000
                                   \/ /\ ds.usdcBalance.units = 50000
                                      /\ ds.usdcBalance.micro > 0}
                        \cup {f \in {"IS_CONTRACT"} : ds.isContract}
                        \cup {f \in {"DUST_ETH"} :
                                ds.ethBalance.milli = 0 /\ ds.txCount > 0}
                    impactOf == [f \in {"NEVER_TRANSACTED", "LOW_TX_HIGH_BALANCE",
                                        "IS_CONTRACT", "DUST_ETH"} |->
                                    CASE f = "NEVER_TRANSACTED" -> 15
                                      [] f = "LOW_TX_HIGH_BALANCE" -> 25
                                      [] f = "IS_CONTRACT" -> 5
                                      [] OTHER -> 10]
                IN  /\ Range(p.flags) = expected
                    /\ Len(p.flags) = Cardinality(expected)
                    /\ Len(p.riskFactors) = Len(p.flags)
                    /\ \A i \in 1..Len(p.flags) :
                          p.riskFactors[i].impact = impactOf[p.flags[i]]
                    /\ ~({"NEVER_TRANSACTED", "DUST_ETH"} \subseteq Range(p.flags))
                    /\ SumSeq(Impacts(p.riskFactors)) <= 45

\* a contract that never transacted and holds more than 50 000 USDC: three
\* flags at once, impacts 15 + 25 + 5
C12_Witness ==
    /\ result.op = "analyzeAddressProfile"
    /\ \E ds \in result.answers : ds.failAt = 0
    /\ Range(result.profile.flags) =
           {"NEVER_TRANSACTED", "LOW_TX_HIGH_BALANCE", "IS_CONTRACT"}
    /\ SumSeq(Impacts(result.profile.riskFactors)) = 45

\* C13: any two requests sent to the same chain are sent at least
\* rateLimitDelay apart, also when the calls overlap in _rateLimit.
C13_SendsAtLeastDelayApart ==
    \A i, j \in 1..Len(rpc.sent) :
        (i < j /\ rpc.sent[i].chain = rpc.sent[j].chain) =>
            rpc.sent[j].time - rpc.sent[i].time >= rateLimitDelay

\* C14: when the transfer fetch or the CCTP deposit fetch of one chain fails
\* during a scan, the result differs from the result of the same scan in
\* which that chain returned no data: the failed chain is marked.
C14_FailedChainToldApart ==
    [][ result'.op = "scanAddress" =>
          \A a \in ScanAddresses, ch \in Range(result'.chains) :
              ToLowerCase(a) = result'.address =>
                  LET ds == AnswersFor(a)
                      scanWith(dsc) ==
                          Returned(ScanAddress(scamDb, cache, now, a, AllChains,
                                               result'.scanDepth,
                                               [ds EXCEPT ![ch] = dsc]))
                  IN  /\ (result'.scanDepth # "quick" /\ ds[ch].scanFetchFails) =>
                             result' # scanWith([ds[ch] EXCEPT
                                                    !.scanFetchFails = FALSE,
                                                    !.transfers = <<>>])
                      /\ (result'.scanDepth = "deep" /\ ds[ch].depositFetchFails) =>
                             result' # scanWith([ds[ch] EXCEPT
                                                    !.depositFetchFails = FALSE,
                                                    !.deposits = <<>>])
      ]_vars

C16_InvalidAddressThrowsFirst ==
    [][ \A a \in InvalidArguments :
          EntryCall(a) =>
              /\ result'.thrown
              /\ result'.address = a
              /\ result'.fetched = {}
              /\ cache' = cache
              /\ UNCHANGED <<scamDb, hist, rpc>>
      ]_vars

\* scanAddress is called with a non-hexadecimal address while the cache
\* holds a profile: it throws and the profile is still there
C16_Witness ==
    /\ result.thrown
    /\ result.op = "scanAddress"
    /\ result.address = NON_HEX_ADDRESS
    /\ result.error = "Invalid Ethereum address"
    /\ cache # <<>>

\* C17: a registry lookup returns the same result for any two spellings of
\* an address that differ only in letter case, for registered and for
\* unregistered addresses, with the table loaded at construction and with
\* the table of a reload.
C17_LookupIgnoresLetterCase ==
    (result.op = "quickCheck" /\ ~result.thrown) =>
        LET casePairs == {{"a", "A"}, {"b", "B"}, {"c", "C"},
                          {"d", "D"}, {"e", "E"}, {"f", "F"}}
            differOnlyInCase(a, b) ==
                /\ Len(a) = Len(b)
                /\ \A i \in 1..Len(a) : a[i] = b[i] \/ {a[i], b[i]} \in casePairs
        IN  \A b \in LookupSpellings :
                differOnlyInCase(b, result.address) =>
                    /\ ValidateAddress(b) = "ok"
                    /\ CheckScamDatabase(scamDb, b) = result.match

\* after the reload of a file that spells the burn address in upper case,
\* the lower-case spelling is looked up and found with the file's entry
C17_Witness ==
    /\ result.op = "quickCheck"
    /\ result.address = DEAD_LOWER
    /\ result.match.isKnownScam
    /\ result.match.category = "burn"
    /\ scamDb = LoadScamDatabase(FileB)

\* C18: a reload that can read the file leaves the table loaded from the
\* whole file and an empty cache; a reload that cannot read the file throws
\* and leaves the table and the cache as they were; the table is at any time
\* the table of one whole readable file, and a lookup answers from the table
\* of the last reload that succeeded.
C18_ReloadReplacesTableAndEmptiesCache ==
    [][ /\ (result'.op = "reload" /\ calls' = calls + 1) =>
              IF Readable(scamFile)
              THEN /\ ~result'.thrown
                   /\ scamDb' = LoadScamDatabase(scamFile)
                   /\ cache' = <<>>
              ELSE /\ result'.thrown
                   /\ scamDb' = scamDb
                   /\ cache' = cache
        /\ \E f \in FileSamples : Readable(f) /\ scamDb' = LoadScamDatabase(f)
        /\ (result'.op = "quickCheck" /\ ~result'.thrown) =>
              /\ scamDb' = scamDb
              /\ result'.match = CheckScamDatabase(scamDb, result'.address)
      ]_vars

\* the file was replaced and reloaded: the table is that of the new file and
\* the cache is empty
C18_Witness ==
    /\ result.op = "reload"
    /\ ~result.thrown
    /\ scamFile = FileB
    /\ scamDb = LoadScamDatabase(FileB)
    /\ scamDb # LoadScamDatabase(FileA)
    /\ cache = <<>>
    /\ calls > 1

\* C19: detectWashTrading returns a WASH_TRADING finding iff some single
\* counterparty has at least 3 (sent, received) pairs of transfers whose
\* amounts differ by at most 1% of the amount sent; the finding has severity
\* high, riskImpact 35 and confidence min(95, 50 + 15 x the number of such
\* counterparties), which is above 50; transfers that go one way only with
\* each counterparty give no finding.
C19_WashTradingByMatchedPairs ==
    result.op = "detectWashTrading" =>
        LET ts    == dataSource["base"]
            me    == ToLowerCase(result.address)
            peers == ({ToLowerCase(ts[i].from) : i \in DOMAIN ts}
                         \cup {ToLowerCase(ts[i].to) : i \in DOMAIN ts}) \ {me}
            pairs(cp) ==
                {p \in (DOMAIN ts) \X (DOMAIN ts) :
                    /\ ToLowerCase(ts[p[1]].from) = me
                    /\ ToLowerCase(ts[p[1]].to) = cp
                    /\ ToLowerCase(ts[p[2]].from) = cp
                    /\ ToLowerCase(ts[p[2]].to) = me
                    /\ 100 * (ts[p[1]].amountUSDC - ts[p[2]].amountUSDC)
                          <= ts[p[1]].amountUSDC
                    /\ 100 * (ts[p[2]].amountUSDC - ts[p[1]].amountUSDC)
                          <= ts[p[1]].amountUSDC}
            such   == {cp \in peers : Cardinality(pairs(cp)) >= 3}
            oneWay == \A cp \in peers :
                         \/ \A i \in DOMAIN ts : ToLowerCase(ts[i].to) # cp
                         \/ \A i \in DOMAIN ts : ToLowerCase(ts[i].from) # cp
        IN  /\ (result.finding # <<>>) <=> (such # {})
            /\ oneWay => result.finding = <<>>
            /\ result.finding # <<>> =>
                  /\ Len(result.finding) = 1
                  /\ result.finding[1].type = "WASH_TRADING"
                  /\ result.finding[1].severity = "high"
                  /\ result.finding[1].riskImpact = 35
                  /\ result.finding[1].confidence
                        = Min(95, 50 + 15 * Cardinality(such))
                  /\ result.finding[1].confidence > 50

\* two counterparties with four matched pairs each: confidence 80
C19_Witness ==
    /\ result.op = "detectWashTrading"
    /\ result.finding # <<>>
    /\ result.finding[1].confidence = 80
    /\ Len(dataSource["base"]) = 8

\* C20 as stated: detectFlashLoanPatterns returns a FLASH_LOAN_PATTERN
\* finding (severity high, riskImpact 40) iff some block holds a transfer
\* received and another transfer sent by the address, both of at least
\* 10 000 USDC, with received >= sent - tolerance, the tolerance being 5% of
\* the amount received.
C20_FlashLoanWhenSentNotAboveTolerance ==
    result.op = "detectFlashLoanPatterns" =>
        LET ts == dataSource["base"]
            me == ToLowerCase(result.address)
            matched ==
                \E i, j \in DOMAIN ts :
                    /\ i # j
                    /\ ToLowerCase(ts[i].to) = me
                    /\ ToLowerCase(ts[j].from) = me
                    /\ ts[i].blockNumber = ts[j].blockNumber
                    /\ ts[i].amountUSDC >= 10000
                    /\ ts[j].amountUSDC >= 10000
                    /\ 100 * ts[i].amountUSDC
                          >= 100 * ts[j].amountUSDC - 5 * ts[i].amountUSDC
        IN  /\ (result.finding # <<>>) <=> matched
            /\ result.finding # <<>> =>
                  /\ result.finding[1].type = "FLASH_LOAN_PATTERN"
                  /\ result.finding[1].severity = "high"
                  /\ result.finding[1].riskImpact = 40

\* C20, amended: the finding is returned iff some block holds at least two
\* transfers of at least 10 000 USDC and, among them, a transfer received and
\* a transfer sent by the address (one transfer sent to oneself is both)
\* whose amounts differ by at most 5% of the amount received, in either
\* direction; it has severity high and riskImpact 40; transfers in different
\* blocks or below 10 000 USDC give no finding.
C20_FlashLoanWithinToleranceBothWays ==
    result.op = "detectFlashLoanPatterns" =>
        LET ts == dataSource["base"]
            me == ToLowerCase(result.address)
            large(b) == {i \in DOMAIN ts :
                            ts[i].blockNumber = b /\ ts[i].amountUSDC >= 10000}
            matched ==
                \E b \in {ts[i].blockNumber : i \in DOMAIN ts} :
                    /\ Cardinality(large(b)) >= 2
                    /\ \E i, j \in large(b) :
                          /\ ToLowerCase(ts[i].to) = me
                          /\ ToLowerCase(ts[j].from) = me
                          /\ 100 * (ts[i].amountUSDC - ts[j].amountUSDC)
                                <= 5 * ts[i].amountUSDC
                          /\ 100 * (ts[j].amountUSDC - ts[i].amountUSDC)
                                <= 5 * ts[i].amountUSDC
            apart ==
                \A i, j \in DOMAIN ts :
                    (ToLowerCase(ts[i].to) = me /\ ToLowerCase(ts[j].from) = me) =>
                        \/ ts[i].blockNumber # ts[j].blockNumber
                        \/ ts[i].amountUSDC < 10000
                        \/ ts[j].amountUSDC < 10000
        IN  /\ (result.finding # <<>>) <=> matched
            /\ apart => result.finding = <<>>
            /\ result.finding # <<>> =>
                  /\ Len(result.finding) = 1
                  /\ result.finding[1].type = "FLASH_LOAN_PATTERN"
                  /\ result.finding[1].severity = "high"
                  /\ result.finding[1].riskImpact = 40

\* 10 000 USDC received and 10 500 USDC sent in one block: the difference is
\* exactly 5% of the amount received
C20_Witness ==
    /\ result.op = "detectFlashLoanPatterns"
    /\ result.finding # <<>>
    /\ Len(dataSource["base"]) = 2
    /\ \E i, j \in DOMAIN dataSource["base"] :
          /\ dataSource["base"][i].to = result.address
          /\ dataSource["base"][i].amountUSDC = 10000
          /\ dataSource["base"][j].from = result.address
          /\ dataSource["base"][j].amountUSDC = 10500
          /\ dataSource["base"][j].to # result.address

\* C21: detectHighVelocity returns a HIGH_VELOCITY finding (severity medium,
\* riskImpact 20) iff the list has at least 20 transfers and at least 20 of
\* them lie in a range of block numbers whose last and first differ by at
\* most 300; the peak it reports is the largest number of transfers in any
\* such range, in whatever order the list gives the transfers.
C21_HighVelocityByTrueWindowMaximum ==
    result.op = "detectHighVelocity" =>
        LET ts == dataSource["base"]
            within(i) == {j \in DOMAIN ts :
                             /\ ts[j].blockNumber >= ts[i].blockNumber
                             /\ ts[j].blockNumber - ts[i].blockNumber <= 300}
            counts == {Cardinality(within(i)) : i \in DOMAIN ts}
            peak == IF counts = {} THEN 0
                    ELSE CHOOSE m \in counts : \A n \in counts : n <= m
        IN  /\ (result.finding # <<>>) <=> (Len(ts) >= 20 /\ peak >= 20)
            /\ result.finding # <<>> =>
                  /\ Len(result.finding) = 1
                  /\ result.finding[1].type = "HIGH_VELOCITY"
                  /\ result.finding[1].severity = "medium"
                  /\ result.finding[1].riskImpact = 20
                  /\ result.finding[1].evidence = peak

\* 21 transfers listed from the latest block to the earliest, 300 blocks
\* from the first to the last: all 21 are in one window
C21_Witness ==
    /\ result.op = "detectHighVelocity"
    /\ result.finding # <<>>
    /\ result.finding[1].evidence = 21
    /\ Len(dataSource["base"]) = 21
    /\ dataSource["base"][1].blockNumber - dataSource["base"][21].blockNumber = 300

C23_LargeTransfersFromThresholdOn ==
    result.op = "detectLargeTransfers" =>
        LET ts == dataSource["base"]
            volume == SumSeq([i \in DOMAIN ts |->
                         IF ts[i].amountUSDC >= 50000 THEN ts[i].amountUSDC ELSE 0])
        IN  /\ (result.finding # <<>>)
                  <=> (\E i \in DOMAIN ts : ts[i].amountUSDC >= 50000)
            /\ result.finding # <<>> =>
                  /\ Len(result.finding) = 1
                  /\ result.finding[1].type = "LARGE_TRANSFERS"
                  /\ result.finding[1].riskImpact = (IF volume > 1000000 THEN 25 ELSE 10)
                  /\ result.finding[1].confidence = 100

\* one transfer of exactly 50 000 USDC: it is reported, with riskImpact 10
C23_Witness ==
    /\ result.op = "detectLargeTransfers"
    /\ result.finding # <<>>
    /\ result.finding[1].riskImpact = 10
    /\ Len(dataSource["base"]) = 1
    /\ dataSource["base"][1].amountUSDC = 50000

C25_ChainHoppingFromThreeChains ==
    result.op = "detectChainHopping" =>
        LET ds == result.deposits
            sources == {ds[i].sourceChain : i \in DOMAIN ds}
        IN  /\ (result.finding # <<>>) <=> (Cardinality(sources) >= 3)
            /\ Cardinality(sources) \in {1, 2} => result.finding = <<>>
            /\ result.finding # <<>> =>
                  /\ Len(result.finding) = 1
                  /\ result.finding[1].type = "CHAIN_HOPPING"
                  /\ result.finding[1].riskImpact = 20
                  /\ result.finding[1].severity = "medium"
                  /\ result.finding[1].confidence = 60

\* one deposit on each of the three chains
C25_Witness ==
    /\ result.op = "detectChainHopping"
    /\ result.finding # <<>>
    /\ Len(result.deposits) = 3

\* C28: analyzeCrossChainActivity takes a chain whose deposit fetch fails as
\* a chain without deposits and analyses the deposits of the other chains
\* requested; when no chain gives a deposit, it returns hasCCTPActivity
\* false, no pattern and no risk factor.
C28_FailedChainCountsAsEmpty ==
    result.op = "analyzeCrossChainActivity" =>
        LET chains == result.chains
            r      == result.analysis
            got    == [k \in DOMAIN r.cctpActivity |->
                          <<r.cctpActivity[k].sourceChain, r.cctpActivity[k].txHash,
                            r.cctpActivity[k].blockNumber>>]
            want   == FlatSeq([i \in DOMAIN chains |->
                          IF dataSource[chains[i]].failed
                          THEN <<>>
                          ELSE [k \in DOMAIN dataSource[chains[i]].items |->
                                   <<chains[i], dataSource[chains[i]].items[k].txHash,
                                     dataSource[chains[i]].items[k].blockNumber>>]])
        IN  /\ ~result.thrown
            /\ got = want
            /\ r.hasCCTPActivity <=> (want # <<>>)
            /\ want = <<>> => r.patterns = <<>> /\ r.riskFactors = <<>>
            /\ want # <<>> =>
                  /\ r.patterns = DetectRapidBridging(r.cctpActivity)
                                     \o DetectChainHopping(r.cctpActivity)
                  /\ Len(r.riskFactors) = Len(r.patterns)

\* the fetch fails on base while ethereum has a burst of deposits: the burst
\* is reported
C28_Witness ==
    /\ result.op = "analyzeCrossChainActivity"
    /\ result.chains = SUPPORTED_CHAINS
    /\ dataSource["base"].failed
    /\ ~dataSource["ethereum"].failed
    /\ result.analysis.hasCCTPActivity
    /\ Len(result.analysis.patterns) = 1
    /\ result.analysis.patterns[1].type = "RAPID_BRIDGING"

\* C26: the confidence of a FLASH_LOAN_PATTERN finding is
\* min(90, 40 + 20 x the number of distinct blocks that hold a matching pair
\* of a transfer received and a transfer sent): a block with several
\* matching pairs counts once.
C26_ConfidenceCountsBlocksOnce ==
    (result.op = "detectFlashLoanPatterns" /\ result.finding # <<>>) =>
        LET ts == dataSource["base"]
            me == ToLowerCase(result.address)
            large(b) == {i \in DOMAIN ts :
                            ts[i].blockNumber = b /\ ts[i].amountUSDC >= 10000}
            matchedBlocks ==
                {b \in {ts[i].blockNumber : i \in DOMAIN ts} :
                    /\ Cardinality(large(b)) >= 2
                    /\ \E i, j \in large(b) :
                          /\ ToLowerCase(ts[i].to) = me
                          /\ ToLowerCase(ts[j].from) = me
                          /\ 100 * (ts[i].amountUSDC - ts[j].amountUSDC)
                                <= 5 * ts[i].amountUSDC
                          /\ 100 * (ts[j].amountUSDC - ts[i].amountUSDC)
                                <= 5 * ts[i].amountUSDC}
        IN  result.finding[1].confidence
               = Min(90, 40 + 20 * Cardinality(matchedBlocks))

\* C27: validateTransfer asks for the recipient's scam-interaction history
\* only when the amount is at least 50 000 USDC; when it asks and the history
\* holds an interaction, the score rises by exactly 30, capped at 100,
\* SCAM_INTERACTIONS is flagged and safe is false; below 50 000 USDC the
\* history is not fetched and interactions change neither the score, the
\* flags nor safe.
C27_InteractionsCountFromThresholdOn ==
    (result.op = "validateTransfer" /\ ~result.thrown) =>
        LET large   == result.amount >= 50000
            dsc     == Answers(dataSource[result.chain], result.recipient)
            history == IF dsc.reputationFetchFails THEN <<>> ELSE dsc.transfers
            \* the other party of a transfer of the history is registered
            known   == \E i \in DOMAIN history :
                          ToLowerCase(IF ToLowerCase(history[i].from) = result.recipient
                                      THEN history[i].to
                                      ELSE history[i].from) \in DOMAIN scamDb
            burn    == result.recipient \in {ZERO_ADDRESS, DEAD_LOWER}
            before  == IF burn
                       THEN 100
                       ELSE Min(100, (IF result.scamMatch.isKnownScam
                                      THEN result.scamMatch.riskScore ELSE 0)
                                        + SumSeq(Impacts(result.profile.riskFactors)))
        IN  /\ result.historyFetched <=> large
            /\ (large /\ known) =>
                  /\ result.overallScore = Min(100, before + 30)
                  /\ "SCAM_INTERACTIONS" \in Range(result.flags)
                  /\ ~result.safe
            /\ ~(large /\ known) =>
                  /\ result.overallScore = before
                  /\ "SCAM_INTERACTIONS" \notin Range(result.flags)
                  /\ result.safe <=> (/\ before < 70
                                      /\ ~result.scamMatch.isKnownScam
                                      /\ ~burn)

\* exactly 50 000 USDC to an unregistered recipient that traded with a
\* registered address: 30 more than the profile alone, below the cap
C27_Witness ==
    /\ result.op = "validateTransfer"
    /\ ~result.thrown
    /\ result.amount = 50000
    /\ result.recipient = CLEAN_ADDRESS
    /\ result.historyFetched
    /\ result.interactions > 0
    /\ result.overallScore = 30 + SumSeq(Impacts(result.profile.riskFactors))
    /\ result.overallScore < 100
    /\ ~result.safe

\* C29: a profile degraded to RPC_ERROR is stored like any other: the round
\* that fails leaves it in the cache with the current time; while the entry
\* is at most CACHE_TTL old, a call for its key returns it, with its
\* riskFactor of impact 10, and makes no DataSource call, even when the
\* DataSource would answer again; a call goes to the DataSource again only
\* when the entry is older than CACHE_TTL or a reload has removed it.
C29_FailedProfileIsCachedForTheTtl ==
    [][(calls' = calls + 1 /\ result'.op = "analyzeAddressProfile") =>
        LET key    == <<"profile", result'.chain, ToLowerCase(result'.address)>>
            failed == key \in DOMAIN cache /\ cache[key].value.flags = <<"RPC_ERROR">>
        IN  /\ (result'.fetched # {} /\ result'.profile.flags = <<"RPC_ERROR">>) =>
                  /\ key \in DOMAIN cache'
                  /\ cache'[key] = [value |-> result'.profile, time |-> now]
            /\ (failed /\ now - cache[key].time <= CACHE_TTL) =>
                  /\ result'.fetched = {}
                  /\ result'.profile = cache[key].value
                  /\ Impacts(result'.profile.riskFactors) = <<10>>
                  /\ cache' = cache
            /\ (failed /\ now - cache[key].time > CACHE_TTL) => result'.fetched # {}
            /\ key \notin DOMAIN cache => result'.fetched # {}
      ]_vars

\* the RPC_ERROR profile stored CACHE_TTL earlier is returned although the
\* DataSource of the chain answers again
C29_Witness ==
    /\ result.op = "analyzeAddressProfile"
    /\ result.fetched = {}
    /\ result.profile.flags = <<"RPC_ERROR">>
    /\ dataSource[result.chain] = "quiet"
    /\ now - cache[CacheKey(result.address, result.chain)].time = CACHE_TTL

\* C30: analyzeAddressProfile has no single-flight protection.  A call goes
\* to the DataSource exactly when the cache holds no entry of its key that is
\* at most CACHE_TTL old, whether or not a round of the same key is in
\* flight, and then runs a round of its own; every round that ends stores its
\* profile under the key with the current time, over whatever entry is
\* there, so the round that ends last leaves the entry.  Of two rounds of one
\* key, the later one starts more than CACHE_TTL after the end of the
\* earlier one unless it started before the earlier one had ended.
C30_NoSingleFlightForOverlappingCalls ==
    /\ [][/\ calls' = calls + 1 =>
               LET e     == hist'.begun[Len(hist'.begun)]
                   young == e.key \in DOMAIN cache
                               /\ now - cache[e.key].time <= CACHE_TTL
               IN  /\ Len(hist'.begun) = Len(hist.begun) + 1
                   /\ e.went <=> ~young
                   /\ e.went =>
                         /\ Cardinality(rpc'.pending) = Cardinality(rpc.pending) + 1
                         /\ \E p \in rpc'.pending \ rpc.pending :
                               /\ p.caller = e.caller
                               /\ CacheKey(p.address, p.chain) = e.key
                   /\ ~e.went => rpc' = rpc /\ cache' = cache /\ result'.fetched = {}
          /\ Len(hist'.ended) # Len(hist.ended) =>
               LET d == hist'.ended[Len(hist'.ended)]
               IN  /\ \E p \in rpc.pending \ rpc'.pending : p.caller = d.caller
                   /\ result'.fetched = {d.key}
                   /\ result'.profile = d.profile
                   /\ d.key \in DOMAIN cache'
                   /\ cache'[d.key] = [value |-> d.profile, time |-> now]
         ]_vars
    /\ [](\A i, j \in DOMAIN hist.begun :
             (/\ i < j
              /\ hist.begun[i].went
              /\ hist.begun[j].went
              /\ hist.begun[i].key = hist.begun[j].key) =>
                 \A k \in DOMAIN hist.ended :
                     (hist.ended[k].caller = hist.begun[i].caller
                         /\ hist.ended[k].after < j) =>
                        hist.begun[j].time - hist.ended[k].time > CACHE_TTL)

\* two calls of one key, spelled differently, started at the same time: both
\* ran a round, the DataSource changed between the ends of the two rounds and
\* the cache holds the profile of the round that ended last
C30_Witness ==
    /\ Len(hist.begun) >= 2
    /\ hist.begun[1].went
    /\ hist.begun[2].went
    /\ hist.begun[1].key = hist.begun[2].key
    /\ hist.begun[1].time = hist.begun[2].time
    /\ Len(hist.ended) = 2
    /\ hist.ended[1].caller = 2
    /\ hist.ended[2].caller = 1
    /\ hist.ended[1].profile # hist.ended[2].profile
    /\ rpc.pending = {}
    /\ cache[hist.begun[1].key].value = hist.ended[2].profile
    /\ result.profile = hist.ended[2].profile

====
